---- MODULE Spec2Model ----
(***************************************************************************)
(* Model of the energy_contracts backend: the tenancy-agreement upload and *)
(* extraction pipeline (users/views/onboarding.py, ai_services/providers/  *)
(* gemini.py), the confirm step that turns an agreement into a Tenancy,    *)
(* the tenancy lifecycle endpoints (users/views/tenancies.py) and the      *)
(* renter bookkeeping (users/models.py).                                   *)
(*                                                                         *)
(* The persisted tables are the state.  Every endpoint is one action.  The *)
(* two extraction endpoints write the agreement row, block on the AI       *)
(* provider and write the row again: SpecExtract takes them in two steps   *)
(* (.._begin, .._finish) with the in-flight request held in `call`, so     *)
(* that the row is visible between the two writes; Spec, which is about    *)
(* the tenancies, takes each of them as one step.  SpecOnboarding is the   *)
(* two-step pipeline together with confirm_tenancy, SpecRenters the        *)
(* endpoints that write renters, SpecHouseholds the deletion of a          *)
(* household with its cascade.  SpecRace and SpecRenterRace serve several  *)
(* requests at the same time: a request is split between its reads and    *)
(* its write, with the instance it loaded held in `pending`.  Responses    *)
(* are recorded in `last` by the path the handler took; the rendering of   *)
(* the response body is not part of the model.                             *)
(***************************************************************************)
EXTENDS Integers, Sequences, FiniteSets, TLC

VARIABLES
    today,        \* timezone.now().date() / date.today(), as a day number
    households,   \* table Household: the ids of its rows
    agreements,   \* table TenancyAgreement: sequence indexed by primary key
    tenancies,    \* table Tenancy: sequence indexed by primary key
    users,        \* table User: email -> [is_active, password, first_name, last_name, phone_number]
    renters,      \* table Renter: sequence indexed by primary key
    invitations,  \* table TenantInvitation: set of [email, household]
    invitation_fields, \* TenantInvitation.expires_at and .accepted_at, by invitation
    memberships,  \* table HouseholdMembership: set of [household, tenant]
    converter,    \* the FileConverter: its temp_files list and the temporary paths on disk
    call,         \* the extraction request in flight, or NoCall
    pending,      \* requests between their first and their last statement, by worker
    last,         \* the request that completed last (its arguments and outcome)
    nops          \* number of requests answered so far, counted where the run is bounded by it

vars == <<today, households, agreements, tenancies, users, renters, invitations, invitation_fields,
          memberships, converter, call, pending, last, nops>>

----------------------------------------------------------------------------
(* Bounds of the model *)

MaxDay == 2
MaxAgreements == 2
MaxTenancies == 2
MaxRenters == 3
MaxOps == 4
MaxConfirms == 2
MaxRenterOps == 3
MaxWorkers == 2

----------------------------------------------------------------------------
(* Fixed rows: two landlords owning one household each, and an admin *)

Households == {"h1", "h2"}
Landlords == {"l1", "l2"}
Callers == Landlords \cup {"admin"}

landlord(h) ==
    CASE h = "h1" -> "l1"
      [] h = "h2" -> "l2"
      [] OTHER -> ""

is_admin(u) == u = "admin"

is_landlord(u) == u \in Landlords

NoDate == 0
Days == 1..(MaxDay + 1)

NoFile == <<>>
AgreementFile(a) == <<"tenancy_agreements", a>>

STATUS_CHOICES == {"future", "active", "moving_out", "moved_out"}
AGREEMENT_STATUS_CHOICES == {"pending", "processing", "processed", "failed"}

NullData == [kind |-> "null"]

NoCall == [op |-> "none"]

\* the workers that serve requests at the same time; an idle worker is
\* between two requests
Workers == 1..MaxWorkers
Idle == [pc |-> "idle"]
NoLast == [op |-> "none", outcome |-> "none"]

----------------------------------------------------------------------------
(* JSON values of the AI response.  A scalar is a tagged tuple; a string    *)
(* that dateutil parses to day n is JDate(n).                               *)

JNull == <<"null">>
JNum(n) == <<"num", n>>
JStr(s) == <<"str", s>>
JDate(n) == <<"date", n>>

IsNull(v) == v[1] = "null"

\* Python truthiness of a JSON scalar, as used by `x or y`
Truthy(v) ==
    CASE v[1] = "null" -> FALSE
      [] v[1] = "num" -> v[2] # 0
      [] v[1] = "str" -> v[2] # ""
      [] OTHER -> TRUE

ValidEmails == {"john@example.com", "jane@example.com"}

\* the `renters` entry of a response: key absent, explicit null, or a list
RentersMissing == [kind |-> "missing", items |-> <<>>]
RentersNull == [kind |-> "null", items |-> <<>>]
RentersList(items) == [kind |-> "list", items |-> items]

JRenter(first, mail, primary) ==
    [first_name |-> first, email |-> mail, is_primary |-> primary]

JDict(sd, ed, rent, dep, rs, first, mail) ==
    [kind |-> "dict", start_date |-> sd, end_date |-> ed, monthly_rent |-> rent,
     deposit |-> dep, renters |-> rs, first_name |-> first, email |-> mail]

JList == [kind |-> "list"]

John == JRenter(JStr("John"), JStr("john@example.com"), TRUE)
Jane == JRenter(JStr("Jane"), JStr("jane@example.com"), FALSE)
NoMail == JRenter(JStr("Jo"), JStr("not-an-email"), TRUE)

\* The JSON documents the provider may answer with
Docs ==
    { JDict(JDate(1), JDate(2), JNum(1500), JNum(3000), RentersList(<<John, Jane>>), JNull, JNull),
      JDict(JDate(1), JNull, JNum(1500), JNull, RentersList(<<John>>), JStr("Top"), JNull),
      JDict(JNull, JNull, JNull, JNull, RentersMissing, JNull, JNull),
      JDict(JStr("soon"), JDate(2), JNum(0), JNum(0), RentersList(<<>>), JNull, JNull),
      JDict(JDate(1), JDate(2), JNum(-1), JNum(3000), RentersList(<<John>>), JNull, JNull),
      JDict(JDate(1), JDate(2), JNum(1500), JNum(-1), RentersList(<<John>>), JNull, JNull),
      JDict(JDate(2), JDate(2), JNum(1500), JNull, RentersList(<<John>>), JNull, JNull),
      JDict(JDate(2), JDate(1), JNum(1500), JNull, RentersList(<<John>>), JNull, JNull),
      JDict(JDate(1), JDate(2), JNum(1500), JNull, RentersList(<<NoMail>>), JNull, JNull),
      JDict(JDate(1), JDate(2), JNum(1500), JNull, RentersNull, JNull, JStr("not-an-email")),
      JList }

----------------------------------------------------------------------------
(* Response text: a sequence of tokens.  Fence is the three backquotes,    *)
(* Lang the word json right after them, Word any prose, Doc(d) the text of *)
(* the JSON value d.                                                       *)

Fence == [t |-> "fence"]
Lang == [t |-> "lang"]
Word == [t |-> "word"]
Doc(d) == [t |-> "doc", v |-> d]

Texts ==
    UNION { { <<Doc(d)>>, <<Fence, Lang, Doc(d), Fence>>, <<Fence, Doc(d), Fence>> } : d \in Docs }
    \cup { <<Word>>, <<>>, <<Word, Doc(JList)>>, <<Fence, Lang, Word, Fence>> }

startswith(text, pat) ==
    /\ Len(text) >= Len(pat)
    /\ SubSeq(text, 1, Len(pat)) = pat

endswith(text, pat) ==
    /\ Len(text) >= Len(pat)
    /\ SubSeq(text, Len(text) - Len(pat) + 1, Len(text)) = pat

\* positions at which pat occurs in text
Occurrences(text, pat) ==
    { i \in 1..(Len(text) - Len(pat) + 1) : SubSeq(text, i, i + Len(pat) - 1) = pat }

Min(S) == CHOOSE x \in S : \A y \in S : x <= y
Max(S) == CHOOSE x \in S : \A y \in S : x >= y

\* text.split(pat)[1], for a text that starts with pat: what lies between
\* the leading pat and its next occurrence
SplitSecond(text, pat) ==
    LET rest == SubSeq(text, Len(pat) + 1, Len(text))
        occ == Occurrences(rest, pat)
    IN  IF occ = {} THEN rest ELSE SubSeq(rest, 1, Min(occ) - 1)

\* text.rsplit(pat, 1)[0], for a text that ends with pat
RSplitFirst(text, pat) == SubSeq(text, 1, Len(text) - Len(pat))

\* gemini.py 144-151: peel the Markdown code fence off the response
StripFence(text) ==
    LET t1 == IF startswith(text, <<Fence, Lang>>) THEN SplitSecond(text, <<Fence, Lang>>) ELSE text
        t2 == IF startswith(t1, <<Fence>>) THEN SplitSecond(t1, <<Fence>>) ELSE t1
        t3 == IF endswith(t2, <<Fence>>) THEN RSplitFirst(t2, <<Fence>>) ELSE t2
    IN  t3

\* json.loads: the text decodes iff it is exactly one JSON value
JsonLoads(text) ==
    IF Len(text) = 1 /\ text[1].t = "doc"
    THEN [ok |-> TRUE, value |-> text[1].v]
    ELSE [ok |-> FALSE, value |-> JList]

\* d.get(key) or (renters[0].get(key) if d.get('renters') else None)
LegacyField(top, rs, key) ==
    IF Truthy(top) THEN top
    ELSE IF rs.kind = "list" /\ rs.items # <<>> THEN rs.items[1][key]
    ELSE JNull

\* gemini.py 160-171: the result mapping returned to the view
BuildResult(d) ==
    [kind |-> "dict",
     start_date |-> d.start_date,
     end_date |-> d.end_date,
     monthly_rent |-> d.monthly_rent,
     deposit |-> d.deposit,
     renters |-> IF d.renters.kind = "missing" THEN RentersList(<<>>) ELSE d.renters,
     first_name |-> LegacyField(d.first_name, d.renters, "first_name"),
     email |-> LegacyField(d.email, d.renters, "email")]

----------------------------------------------------------------------------
(* GeminiProvider *)

SUPPORTED_MIME_TYPES == {".pdf", ".jpg", ".jpeg", ".png", ".xlsx", ".xls", ".docx", ".doc"}

\* What one extraction run meets outside the process: whether the provider
\* package imports, the state of GEMINI_API_KEY, whether the stored file is
\* on disk, whether the upload/generate calls go through, and the text the
\* model answers with.
Env(imp, key, onDisk, net, text) ==
    [importable |-> imp, api_key |-> key, file_exists |-> onDisk, network |-> net, text |-> text]

GoodEnv(text) == Env(TRUE, "valid", TRUE, "ok", text)

Envs ==
    { GoodEnv(t) : t \in Texts }
    \cup { Env(FALSE, "valid", TRUE, "ok", <<>>),
           Env(TRUE, "missing", TRUE, "ok", <<>>),
           Env(TRUE, "invalid", TRUE, "ok", <<>>),
           Env(TRUE, "valid", FALSE, "ok", <<>>),
           Env(TRUE, "valid", TRUE, "error", <<>>) }

Raise(e) == [ok |-> FALSE, error |-> e, data |-> NullData]
Return(d) == [ok |-> TRUE, error |-> "", data |-> d]

validate_api_key(env) == env.api_key = "valid"

is_supported_file(ext) == ext \in SUPPORTED_MIME_TYPES

\* GeminiProvider.extract_tenant_data
extract_tenant_data(ext, env) ==
    IF ~validate_api_key(env) THEN Raise("ValueError: api key")
    ELSE IF ~env.file_exists THEN Raise("FileNotFoundError")
    ELSE IF ~is_supported_file(ext) THEN Raise("ValueError: unsupported file type")
    ELSE IF env.network # "ok" THEN Raise("Exception: provider call failed")
    ELSE LET parsed == JsonLoads(StripFence(env.text))
         IN  IF ~parsed.ok THEN Raise("Exception: invalid JSON")
             ELSE IF parsed.value.kind # "dict" THEN Raise("Exception: AttributeError")
             ELSE Return(BuildResult(parsed.value))

\* lines 205-211 / 267-276 of the views: import the provider, build it, run it
RunExtraction(ext, env) ==
    IF ~env.importable THEN Raise("ImportError")
    ELSE extract_tenant_data(ext, env)

\* EmailStr on a JSON scalar
JEmailStr(v) == v[1] = "str" /\ v[2] \in ValidEmails

\* TenancyExtractedSchema.parse_date: a date string becomes its date, any
\* other string becomes None
parse_date(v) == IF v[1] = "date" THEN v[2] ELSE NoDate

\* RenterExtractedSchema
RenterExtractedSchema(r) == IsNull(r.email) \/ JEmailStr(r.email)

\* TenancyExtractedSchema on the mapping extract_tenant_data returns:
\* amounts are None or >= 0, renters is a list of valid renters, email is
\* None or an address, and validate_dates holds
TenancyExtractedSchema(d) ==
    /\ IsNull(d.monthly_rent) \/ (d.monthly_rent[1] = "num" /\ d.monthly_rent[2] >= 0)
    /\ IsNull(d.deposit) \/ (d.deposit[1] = "num" /\ d.deposit[2] >= 0)
    /\ d.renters.kind = "list"
    /\ \A i \in 1..Len(d.renters.items) : RenterExtractedSchema(d.renters.items[i])
    /\ IsNull(d.email) \/ JEmailStr(d.email)
    /\ ~(parse_date(d.end_date) # NoDate /\ parse_date(d.start_date) # NoDate
         /\ parse_date(d.end_date) <= parse_date(d.start_date))

----------------------------------------------------------------------------
(* Upload requests *)

allowed_extensions == {".pdf", ".jpg", ".jpeg", ".png", ".xlsx", ".xls", ".docx", ".doc"}

NoUpload == [present |-> FALSE, ext |-> "", size_ok |-> TRUE]
Upload(ext, ok) == [present |-> TRUE, ext |-> ext, size_ok |-> ok]

UploadedFiles == { NoUpload, Upload(".pdf", TRUE), Upload(".pdf", FALSE), Upload(".exe", TRUE) }

\* household ids a request may carry: the two rows, an id of no row, and a
\* value TenancyUploadSchema rejects
HouseholdIds == Households \cup {"h9", "invalid"}

Done(op, outcome, rest) == [op |-> op, outcome |-> outcome] @@ rest

NewAgreement(h, ext) ==
    [household |-> h, ext |-> ext, status |-> "processing", extracted_data |-> NullData]

\* what is left at the primary key of a row that was deleted
GoneAgreement == [household |-> "", ext |-> "", status |-> "deleted", extracted_data |-> NullData]

\* SaveProcessed writing the status alone; C6 must not survive it
SaveProcessed_status_only(row, data) == [row EXCEPT !.status = "processed"]

\* the write of a successful run: save(update_fields=['extracted_data', 'status'])
SaveProcessed(row, data) == [row EXCEPT !.extracted_data = data, !.status = "processed"]

\* the write of a failed run: save(update_fields=['status'])
SaveFailed(row) == [row EXCEPT !.status = "failed"]

\* AfterExtraction without the except branch; C7 must not survive it
AfterExtraction_unhandled(row, res) == IF res.ok THEN SaveProcessed(row, res.data) ELSE row

\* lines 213-224 / 279-298: the try/except around the provider call
AfterExtraction(row, res) == IF res.ok THEN SaveProcessed(row, res.data) ELSE SaveFailed(row)

\* lines 148-196 of upload_tenancy: the checks made before a row is written
UploadCheck(caller, hid, file) ==
    IF hid = "invalid" THEN "400"
    ELSE IF hid \notin households THEN "404"
    ELSE IF landlord(hid) # caller THEN "403"
    ELSE IF ~file.present \/ ~file.size_ok \/ file.ext \notin allowed_extensions THEN "400"
    ELSE "accepted"

\* ProcessCheck without the already-processed check; C5 must not survive it
ProcessCheck_always_runs(caller, pk) ==
    IF ~(pk \in 1..Len(agreements) /\ landlord(agreements[pk].household) = caller) THEN "500"
    ELSE "accepted"

\* lines 249-261 of process_tenancy: the lookup and the already-processed check
ProcessCheck(caller, pk) ==
    IF ~(pk \in 1..Len(agreements) /\ landlord(agreements[pk].household) = caller) THEN "500"
    ELSE IF agreements[pk].status = "processed" THEN "200"
    ELSE "accepted"

UploadDone(ta, row) == Done("upload_tenancy", "201", [ta |-> ta, status |-> row.status])

ProcessDone(ta, row) ==
    Done("process_tenancy", IF row.status = "processed" THEN "200" ELSE "500",
         [ta |-> ta, status |-> row.status])

\* upload_tenancy up to the point where it blocks on the provider
upload_tenancy_begin(caller, hid, file) ==
    /\ call = NoCall
    /\ UNCHANGED <<today, households, tenancies, users, renters, invitations, invitation_fields, pending, nops, memberships, converter>>
    /\ IF UploadCheck(caller, hid, file) # "accepted"
       THEN /\ last' = Done("upload_tenancy", UploadCheck(caller, hid, file), [ta |-> 0])
            /\ UNCHANGED <<agreements, call>>
       ELSE /\ Len(agreements) < MaxAgreements
            /\ agreements' = Append(agreements, NewAgreement(hid, file.ext))
            /\ call' = [op |-> "upload_tenancy", ta |-> Len(agreements) + 1]
            /\ UNCHANGED last

\* upload_tenancy from the provider's answer to the response
upload_tenancy_finish(env) ==
    /\ call.op = "upload_tenancy"
    /\ LET row == AfterExtraction(agreements[call.ta], RunExtraction(agreements[call.ta].ext, env))
       IN  /\ agreements' = [agreements EXCEPT ![call.ta] = row]
           /\ last' = UploadDone(call.ta, row)
    /\ call' = NoCall
    /\ UNCHANGED <<today, households, tenancies, users, renters, invitations, invitation_fields, pending, nops, memberships, converter>>

\* process_tenancy up to the point where it blocks on the provider
process_tenancy_begin(caller, pk) ==
    /\ call = NoCall
    /\ UNCHANGED <<today, households, tenancies, users, renters, invitations, invitation_fields, pending, nops, memberships, converter>>
    /\ IF ProcessCheck(caller, pk) # "accepted"
       THEN /\ last' = Done("process_tenancy", ProcessCheck(caller, pk), [ta |-> pk])
            /\ UNCHANGED <<agreements, call>>
       ELSE /\ agreements' = [agreements EXCEPT ![pk].status = "processing"]
            /\ call' = [op |-> "process_tenancy", ta |-> pk]
            /\ UNCHANGED last

\* process_tenancy from the provider's answer to the response
process_tenancy_finish(env) ==
    /\ call.op = "process_tenancy"
    /\ LET row == AfterExtraction(agreements[call.ta], RunExtraction(agreements[call.ta].ext, env))
       IN  /\ agreements' = [agreements EXCEPT ![call.ta] = row]
           /\ last' = ProcessDone(call.ta, row)
    /\ call' = NoCall
    /\ UNCHANGED <<today, households, tenancies, users, renters, invitations, invitation_fields, pending, nops, memberships, converter>>

\* upload_tenancy as one step: the request runs from start to response with
\* no other request in between
upload_tenancy(caller, hid, file, env) ==
    /\ call = NoCall
    /\ nops < MaxOps
    /\ nops' = nops + 1
    /\ UNCHANGED <<today, households, tenancies, users, renters, invitations, invitation_fields, call, pending, memberships, converter>>
    /\ IF UploadCheck(caller, hid, file) # "accepted"
       THEN /\ last' = Done("upload_tenancy", UploadCheck(caller, hid, file), [ta |-> 0])
            /\ UNCHANGED agreements
       ELSE LET row == AfterExtraction(NewAgreement(hid, file.ext), RunExtraction(file.ext, env))
            IN  /\ Len(agreements) < MaxAgreements
                /\ agreements' = Append(agreements, row)
                /\ last' = UploadDone(Len(agreements) + 1, row)

\* process_tenancy as one step
process_tenancy(caller, pk, env) ==
    /\ call = NoCall
    /\ nops < MaxOps
    /\ nops' = nops + 1
    /\ UNCHANGED <<today, households, tenancies, users, renters, invitations, invitation_fields, call, pending, memberships, converter>>
    /\ IF ProcessCheck(caller, pk) # "accepted"
       THEN /\ last' = Done("process_tenancy", ProcessCheck(caller, pk), [ta |-> pk])
            /\ UNCHANGED agreements
       ELSE LET started == [agreements[pk] EXCEPT !.status = "processing"]
                row == AfterExtraction(started, RunExtraction(started.ext, env))
            IN  /\ agreements' = [agreements EXCEPT ![pk] = row]
                /\ last' = ProcessDone(pk, row)

----------------------------------------------------------------------------
(* Table Tenancy *)

NewTenancy(h, name, st, sd, ed, rent, dep, proof) ==
    [household |-> h, name |-> name, status |-> st, start_date |-> sd, end_date |-> ed,
     monthly_rent |-> rent, deposit |-> dep, proof_document |-> proof]

\* a lookup of the other active rows that finds none; C11 must not survive it
OtherActive_none(tens, h, pk) == {}

\* what is left at the primary key of a row that was deleted
GoneTenancy == NewTenancy("", "", "deleted", NoDate, NoDate, 0, 0, NoFile)

\* rows other than pk that are active in household h
OtherActive(tens, h, pk) ==
    { i \in 1..Len(tens) : i # pk /\ tens[i].household = h /\ tens[i].status = "active" }

\* a database without the unique constraint; C2 must not survive it
one_active_tenancy_per_household_dropped(tens) == TRUE

\* Tenancy.Meta.constraints: UniqueConstraint(fields=['household'],
\* condition=Q(status='active')), as the database enforces it on each write
one_active_tenancy_per_household(tens) ==
    \A i \in 1..Len(tens) : tens[i].status = "active" => OtherActive(tens, tens[i].household, i) = {}

\* Tenancy.clean for the instance `row` with primary key pk (0 when unsaved)
clean(tens, row, pk) ==
    /\ ~(row.end_date # NoDate /\ row.start_date # NoDate /\ row.end_date <= row.start_date)
    /\ row.status = "active" => OtherActive(tens, row.household, pk) = {}

\* Model.full_clean: field validation, then clean()
full_clean(tens, row, pk) ==
    /\ row.status \in STATUS_CHOICES
    /\ row.start_date # NoDate
    /\ clean(tens, row, pk)

\* TenancyViewSet.get_queryset for admins and landlords
get_queryset(caller) ==
    IF is_admin(caller) THEN { i \in 1..Len(tenancies) : tenancies[i] # GoneTenancy }
    ELSE { i \in 1..Len(tenancies) : landlord(tenancies[i].household) = caller }

\* the status confirm_tenancy derives from the start date
DerivedStatus(sd, now) == IF sd <= now THEN "active" ELSE "future"

----------------------------------------------------------------------------
(* Request payloads *)

Terms ==
    { [name |-> "Lease A", monthly_rent |-> 1500, deposit |-> 3000],
      [name |-> "Lease B", monthly_rent |-> 1600, deposit |-> 0] }

\* date pairs (start, end) a request may carry, NoDate for an absent field:
\* started on day 1 and open-ended; starting on the last day and ending the
\* day after; starting after the last day
GoodDates == { <<1, NoDate>>, <<MaxDay, MaxDay + 1>>, <<MaxDay + 1, NoDate>> }

\* no start date; end on the start date; end before the start date
BadDates == { <<NoDate, NoDate>>, <<MaxDay, MaxDay>>, <<MaxDay + 1, 1>> }

DatePairs == GoodDates \cup BadDates

ConfirmPayload(name, sd, ed, rent, dep) ==
    [tenancy_name |-> name, start_date |-> sd, end_date |-> ed, monthly_rent |-> rent, deposit |-> dep]

ConfirmPayloads ==
    { ConfirmPayload(t.name, d[1], d[2], t.monthly_rent, t.deposit) : t \in Terms, d \in DatePairs }
    \cup { ConfirmPayload("", 1, NoDate, 1500, 0),
           ConfirmPayload("Lease A", 1, NoDate, -1, 0),
           ConfirmPayload("Lease A", 1, NoDate, 1500, -1) }

\* TenancyConfirmSchema
TenancyConfirmSchema(ta, p) ==
    /\ ta > 0
    /\ p.tenancy_name # ""
    /\ p.start_date # NoDate
    /\ p.monthly_rent >= 0
    /\ p.deposit >= 0
    /\ ~(p.end_date # NoDate /\ p.end_date <= p.start_date)

----------------------------------------------------------------------------
(* Tables User, Renter, TenantInvitation *)

email(u) ==
    CASE u = "l1" -> "l1@example.com"
      [] u = "l2" -> "l2@example.com"
      [] OTHER -> "admin@example.com"

\* addresses a renter request may carry; the last one fails EmailStr
RenterEmails == {"john@example.com", "jane@example.com", "l2@example.com", "not-an-email"}

EmailStr(e) == e # "not-an-email"

Deleted == [deleted |-> TRUE, tenancy |-> 0, user |-> "", is_primary |-> FALSE]

NewRenter(t, e, primary) == [deleted |-> FALSE, tenancy |-> t, user |-> e, is_primary |-> primary]

\* live primary keys of the renters of tenancy t
RentersOf(rs, t) == { i \in 1..Len(rs) : ~rs[i].deleted /\ rs[i].tenancy = t }

PrimaryOf(rs, t) == { i \in RentersOf(rs, t) : rs[i].is_primary }

\* Renter.save without the demotion of the other primary renters; C3 must
\* not survive it
save_without_demotion(rs, row) == Append(rs, row)

\* Renter.save of a new row: a primary renter first demotes every primary
\* renter of its tenancy, then the row is inserted
save(rs, row) ==
    LET demoted == [i \in 1..Len(rs) |->
                      IF row.is_primary /\ i \in PrimaryOf(rs, row.tenancy)
                      THEN [rs[i] EXCEPT !.is_primary = FALSE]
                      ELSE rs[i]]
    IN  Append(demoted, row)

\* the profile a request carries: first_name, last_name, phone_number
NoProfile == [first_name |-> "", last_name |-> "", phone_number |-> ""]

\* set_password(None): an unusable password
NoPassword == "!"

\* UserManager.create_user: the row of a new account
create_user(password, profile, is_active) ==
    [is_active |-> is_active, password |-> password, first_name |-> profile.first_name,
     last_name |-> profile.last_name, phone_number |-> profile.phone_number]

Db(us, rs, inv) == [users |-> us, renters |-> rs, invitations |-> inv]

Invitation(e, h) == [email |-> e, household |-> h]

INVITATION_DAYS == 7

\* TenantInvitation.save on the rows inserted since fields was current: a new
\* invitation expires seven days from now and is not accepted; rows that are
\* gone lose their fields
TenantInvitation_save(fields, keys, now) ==
    [k \in keys |-> IF k \in DOMAIN fields THEN fields[k]
                    ELSE [expires_at |-> now + INVITATION_DAYS, accepted_at |-> NoDate]]

\* _add_renter_to_tenancy attaching the user without looking for an
\* existing Renter row; C19 must not survive it
add_renter_to_tenancy_unchecked(db, t, h, e, primary, mailOK) ==
    [error |-> "", db |-> [db EXCEPT !.renters = save(db.renters, NewRenter(t, e, primary))]]

\* TenancyViewSet._add_renter_to_tenancy on the tables db; mailOK tells
\* whether send_invitation_email goes through.  error is "" on success;
\* db holds the writes made up to the point of the error.
add_renter_to_tenancy(db, t, h, e, primary, mailOK) ==
    IF e \in DOMAIN db.users
    THEN IF \E i \in RentersOf(db.renters, t) : db.renters[i].user = e
         THEN [error |-> "ValueError", db |-> db]
         ELSE [error |-> "", db |-> [db EXCEPT !.renters = save(db.renters, NewRenter(t, e, primary))]]
    ELSE LET us == [x \in DOMAIN db.users \cup {e} |->
                       IF x = e THEN create_user(NoPassword, NoProfile, FALSE) ELSE db.users[x]]
             rs == save(db.renters, NewRenter(t, e, primary))
             d1 == Db(us, rs, db.invitations)
         IN  IF Invitation(e, h) \in db.invitations
             THEN [error |-> "IntegrityError", db |-> d1]
             ELSE IF ~mailOK
             THEN [error |-> "Exception: mail", db |-> [d1 EXCEPT !.invitations = @ \cup {Invitation(e, h)}]]
             ELSE [error |-> "", db |-> [d1 EXCEPT !.invitations = @ \cup {Invitation(e, h)}]]

\* the loop of TenancyViewSet.create over the initial renters: stops at the
\* first renter that raises
RECURSIVE add_renters(_, _, _, _, _)
add_renters(db, t, h, list, mailOK) ==
    IF list = <<>> THEN [error |-> "", db |-> db]
    ELSE LET r == add_renter_to_tenancy(db, t, h, list[1].email, list[1].is_primary, mailOK)
         IN  IF r.error # "" THEN r
             ELSE add_renters(r.db, t, h, Tail(list), mailOK)

----------------------------------------------------------------------------
(* confirm_tenancy *)

\* FirstByProof finding no row; C1 must not survive it
FirstByProof_finds_nothing(tens, file) == {}

\* the rows Tenancy.objects.filter(proof_document=file).first() may return:
\* the matching rows leading the Meta ordering ['-start_date']
FirstByProof(tens, file) ==
    LET hit == { i \in 1..Len(tens) : tens[i].proof_document = file }
    IN  { i \in hit : \A j \in hit : tens[j].start_date <= tens[i].start_date }

\* ConfirmUpdate leaving the status as it was; C10 must not survive it
ConfirmUpdate_keeps_status(row, p, now) ==
    [row EXCEPT !.name = p.tenancy_name,
                !.start_date = p.start_date,
                !.end_date = p.end_date,
                !.monthly_rent = p.monthly_rent,
                !.deposit = p.deposit]

\* lines 347-352: the update path overwrites the confirmed fields and the status
ConfirmUpdate(row, p, now) ==
    [row EXCEPT !.name = p.tenancy_name,
                !.start_date = p.start_date,
                !.end_date = p.end_date,
                !.monthly_rent = p.monthly_rent,
                !.deposit = p.deposit,
                !.status = DerivedStatus(p.start_date, now)]

\* lines 359-368: the create path
ConfirmCreate(agreement, file, p, now) ==
    NewTenancy(agreement.household, p.tenancy_name, DerivedStatus(p.start_date, now),
               p.start_date, p.end_date, p.monthly_rent, p.deposit, file)

\* ConfirmableAgreement without the status filter; C4 must not survive it
ConfirmableAgreement_any_status(caller, ta) ==
    /\ ta \in 1..Len(agreements)
    /\ landlord(agreements[ta].household) = caller

\* lines 332-337: get_object_or_404(TenancyAgreement, id=.., household__landlord=.., status='processed')
ConfirmableAgreement(caller, ta) ==
    /\ ta \in 1..Len(agreements)
    /\ landlord(agreements[ta].household) = caller
    /\ agreements[ta].status = "processed"

\* the payload that leaves `row` as it is when confirmed again
PayloadOf(row) ==
    ConfirmPayload(row.name, row.start_date, row.end_date, row.monthly_rent, row.deposit)

\* whether the request (caller, ta, p) repeats the request answered last:
\* a confirm by the same caller for the same agreement with the same
\* payload, which wrote a tenancy
Repeats(caller, ta, p) ==
    /\ last.op = "confirm_tenancy"
    /\ last.outcome \in {"created", "updated"}
    /\ last.caller = caller
    /\ last.ta = ta
    /\ PayloadOf(tenancies[last.tenancy]) = p

\* the record of a confirm request: who asked, for which agreement, on
\* which day, whether it repeats the previous request, and on success the
\* row written, its confirmed start date and the status it had before
\* ("" on the create path)
ConfirmDone(caller, ta, p, outcome, pk, was) ==
    Done("confirm_tenancy", outcome,
         [caller |-> caller, ta |-> ta, day |-> today, repeat |-> Repeats(caller, ta, p),
          tenancy |-> pk, start_date |-> IF pk = 0 THEN NoDate ELSE p.start_date, was |-> was])

confirm_tenancy(caller, ta, p) ==
    /\ nops < MaxOps
    /\ nops' = nops + 1
    /\ UNCHANGED <<today, households, agreements, users, renters, invitations, invitation_fields, call, pending, memberships, converter>>
    /\ IF ~TenancyConfirmSchema(ta, p)
       THEN /\ last' = ConfirmDone(caller, ta, p, "400", 0, "")
            /\ UNCHANGED tenancies
       ELSE IF ~ConfirmableAgreement(caller, ta)
       THEN /\ last' = ConfirmDone(caller, ta, p, "500", 0, "")
            /\ UNCHANGED tenancies
       ELSE LET file == AgreementFile(ta)
                existing == FirstByProof(tenancies, file)
            IN  IF existing # {}
                THEN \E pk \in existing :
                        LET tens == [tenancies EXCEPT ![pk] = ConfirmUpdate(@, p, today)]
                        IN  IF one_active_tenancy_per_household(tens)
                            THEN /\ tenancies' = tens
                                 /\ last' = ConfirmDone(caller, ta, p, "updated", pk, tenancies[pk].status)
                            ELSE /\ UNCHANGED tenancies
                                 /\ last' = ConfirmDone(caller, ta, p, "500", 0, "")
                ELSE LET tens == Append(tenancies, ConfirmCreate(agreements[ta], file, p, today))
                     IN  IF one_active_tenancy_per_household(tens)
                         THEN /\ Len(tenancies) < MaxTenancies
                              /\ tenancies' = tens
                              /\ last' = ConfirmDone(caller, ta, p, "created", Len(tens), "")
                         ELSE /\ UNCHANGED tenancies
                              /\ last' = ConfirmDone(caller, ta, p, "500", 0, "")

----------------------------------------------------------------------------
(* TenancyViewSet *)

None == <<>>
Some(x) == <<x>>

RenterEntry(e, primary) == [email |-> e, is_primary |-> primary]

CreatePayload(hid, sd, ed, rent, dep, st, rs) ==
    [household_id |-> hid, start_date |-> sd, end_date |-> ed, monthly_rent |-> rent,
     deposit |-> dep, status |-> st, renters |-> rs]

\* TenancyCreateSchema, RenterSchema
TenancyCreateSchema(p) ==
    /\ p.household_id # "invalid"
    /\ p.start_date # NoDate
    /\ p.monthly_rent >= 0
    /\ p.deposit >= 0
    /\ p.status \in STATUS_CHOICES
    /\ \A i \in 1..Len(p.renters) : EmailStr(p.renters[i].email)
    /\ ~(p.end_date # NoDate /\ p.start_date # NoDate /\ p.end_date <= p.start_date)

TenancyDone(op, outcome, pk) == Done(op, outcome, [tenancy |-> pk])

\* TenancyViewSet.create.  The view is one transaction with the try/except
\* inside it: an exception of the renter loop that is no database error
\* (ValueError, a failed invitation mail) is answered 400 inside the atomic
\* block, which then commits the tenancy and the renters written so far; a
\* database error (IntegrityError) marks the transaction and rolls it back
create(caller, p, mailOK) ==
    /\ nops < MaxOps
    /\ nops' = nops + 1
    /\ UNCHANGED <<today, households, agreements, call, pending, memberships, converter>>
    /\ LET row == NewTenancy(p.household_id, "Unnamed Tenancy", p.status, p.start_date,
                             p.end_date, p.monthly_rent, p.deposit, NoFile)
           tens == Append(tenancies, row)
           r == add_renters(Db(users, renters, invitations), Len(tens), p.household_id,
                            p.renters, mailOK)
       IN  IF ~TenancyCreateSchema(p) \/ p.household_id \notin households
           THEN /\ last' = TenancyDone("create", "400", 0)
                /\ UNCHANGED <<tenancies, users, renters, invitations, invitation_fields>>
           ELSE IF ~is_admin(caller) /\ landlord(p.household_id) # caller
           THEN /\ last' = TenancyDone("create", "403", 0)
                /\ UNCHANGED <<tenancies, users, renters, invitations, invitation_fields>>
           ELSE IF ~full_clean(tenancies, row, 0) \/ ~one_active_tenancy_per_household(tens)
           THEN /\ last' = TenancyDone("create", "400", 0)
                /\ UNCHANGED <<tenancies, users, renters, invitations, invitation_fields>>
           ELSE IF r.error = "IntegrityError"
           THEN /\ last' = TenancyDone("create", "400", 0)
                /\ UNCHANGED <<tenancies, users, renters, invitations, invitation_fields>>
           ELSE /\ Len(tenancies) < MaxTenancies
                /\ Len(r.db.renters) <= MaxRenters
                /\ tenancies' = tens
                /\ users' = r.db.users
                /\ renters' = r.db.renters
                /\ invitations' = r.db.invitations
                /\ invitation_fields' = TenantInvitation_save(invitation_fields, invitations', today)
                /\ last' = TenancyDone("create", IF r.error = "" THEN "created" ELSE "400", Len(tens))

UpdatePayload(sd, ed, rent, dep, st) ==
    [start_date |-> sd, end_date |-> ed, monthly_rent |-> rent, deposit |-> dep, status |-> st]

\* TenancyUpdateSchema; status "" and amount None stand for an absent field
TenancyUpdateSchema(p) ==
    /\ p.monthly_rent # None => p.monthly_rent[1] >= 0
    /\ p.deposit # None => p.deposit[1] >= 0
    /\ p.status # "" => p.status \in STATUS_CHOICES
    /\ ~(p.end_date # NoDate /\ p.start_date # NoDate /\ p.end_date <= p.start_date)

\* lines 178-187: only the fields present in the request are assigned
UpdateFields(row, p) ==
    [row EXCEPT !.start_date = IF p.start_date # NoDate THEN p.start_date ELSE @,
                !.end_date = IF p.end_date # NoDate THEN p.end_date ELSE @,
                !.monthly_rent = IF p.monthly_rent # None THEN p.monthly_rent[1] ELSE @,
                !.deposit = IF p.deposit # None THEN p.deposit[1] ELSE @,
                !.status = IF p.status # "" THEN p.status ELSE @]

\* every tenancy endpoint starts with get_object() on get_queryset()
Rejected(op, code) ==
    /\ last' = TenancyDone(op, code, 0)
    /\ UNCHANGED tenancies

\* Model.save of row pk: the write goes through unless the database
\* constraint rejects it
SaveRow(op, pk, row) ==
    LET tens == [tenancies EXCEPT ![pk] = row]
    IN  IF one_active_tenancy_per_household(tens)
        THEN /\ tenancies' = tens
             /\ last' = TenancyDone(op, "saved", pk)
        ELSE Rejected(op, "500")

update(caller, pk, p) ==
    /\ nops < MaxOps
    /\ nops' = nops + 1
    /\ UNCHANGED <<today, households, agreements, users, renters, invitations, invitation_fields, call, pending, memberships, converter>>
    /\ IF pk \notin get_queryset(caller) THEN Rejected("update", "404")
       ELSE IF ~TenancyUpdateSchema(p) THEN Rejected("update", "400")
       ELSE IF ~full_clean(tenancies, UpdateFields(tenancies[pk], p), pk)
       THEN Rejected("update", "400")
       ELSE SaveRow("update", pk, UpdateFields(tenancies[pk], p))

activate(caller, pk) ==
    /\ nops < MaxOps
    /\ nops' = nops + 1
    /\ UNCHANGED <<today, households, agreements, users, renters, invitations, invitation_fields, call, pending, memberships, converter>>
    /\ IF pk \notin get_queryset(caller) THEN Rejected("activate", "404")
       ELSE IF OtherActive(tenancies, tenancies[pk].household, pk) # {}
       THEN Rejected("activate", "400")
       ELSE SaveRow("activate", pk, [tenancies[pk] EXCEPT !.status = "active"])

\* StartMoveoutSchema: end_date is required and not before date.today()
StartMoveoutSchema(ed) == ed # NoDate /\ ed >= today

start_moveout(caller, pk, ed) ==
    /\ nops < MaxOps
    /\ nops' = nops + 1
    /\ UNCHANGED <<today, households, agreements, users, renters, invitations, invitation_fields, call, pending, memberships, converter>>
    /\ IF pk \notin get_queryset(caller) THEN Rejected("start_moveout", "404")
       ELSE IF ~StartMoveoutSchema(ed) THEN Rejected("start_moveout", "400")
       ELSE SaveRow("start_moveout", pk,
                    [tenancies[pk] EXCEPT !.status = "moving_out", !.end_date = ed])

mark_moved_out(caller, pk) ==
    /\ nops < MaxOps
    /\ nops' = nops + 1
    /\ UNCHANGED <<today, households, agreements, users, renters, invitations, invitation_fields, call, pending, memberships, converter>>
    /\ IF pk \notin get_queryset(caller) THEN Rejected("mark_moved_out", "404")
       ELSE SaveRow("mark_moved_out", pk, [tenancies[pk] EXCEPT !.status = "moved_out"])

destroy(caller, pk) ==
    /\ nops < MaxOps
    /\ nops' = nops + 1
    /\ UNCHANGED <<today, households, agreements, users, renters, invitations, invitation_fields, call, pending, memberships, converter>>
    /\ IF pk \notin get_queryset(caller) THEN Rejected("destroy", "404")
       ELSE SaveRow("destroy", pk, [tenancies[pk] EXCEPT !.status = "moved_out"])

RenterDone(op, outcome, pk, rid, primary) ==
    Done(op, outcome, [tenancy |-> pk, renter |-> rid, is_primary |-> primary])

\* the record of an add_renter request, with the address it carried
AddRenterDone(outcome, pk, rid, primary, e) ==
    RenterDone("add_renter", outcome, pk, rid, primary) @@ [email |-> e]

\* TenancyViewSet.add_renter: the view is one transaction; a ValueError is
\* answered inside it (nothing was written before it), any other exception
\* leaves the view and rolls the transaction back
add_renter(caller, pk, e, primary, mailOK) ==
    /\ nops < MaxOps
    /\ nops' = nops + 1
    /\ UNCHANGED <<today, households, agreements, tenancies, call, pending, memberships, converter>>
    /\ IF pk \notin get_queryset(caller)
       THEN /\ last' = AddRenterDone("404", 0, 0, primary, e)
            /\ UNCHANGED <<users, renters, invitations, invitation_fields>>
       ELSE IF ~EmailStr(e)
       THEN /\ last' = AddRenterDone("400", pk, 0, primary, e)
            /\ UNCHANGED <<users, renters, invitations, invitation_fields>>
       ELSE LET r == add_renter_to_tenancy(Db(users, renters, invitations), pk,
                                           tenancies[pk].household, e, primary, mailOK)
            IN  IF r.error = "ValueError"
                THEN /\ last' = AddRenterDone("400", pk, 0, primary, e)
                     /\ UNCHANGED <<users, renters, invitations, invitation_fields>>
                ELSE IF r.error # ""
                THEN /\ last' = AddRenterDone("500", pk, 0, primary, e)
                     /\ UNCHANGED <<users, renters, invitations, invitation_fields>>
                ELSE /\ Len(r.db.renters) <= MaxRenters
                     /\ users' = r.db.users
                     /\ renters' = r.db.renters
                     /\ invitations' = r.db.invitations
                     /\ invitation_fields' = TenantInvitation_save(invitation_fields, invitations', today)
                     /\ last' = AddRenterDone("created", pk, Len(r.db.renters), primary, e)

\* TenancyViewSet.remove_renter
remove_renter(caller, pk, rid) ==
    /\ nops < MaxOps
    /\ nops' = nops + 1
    /\ UNCHANGED <<today, households, agreements, tenancies, users, invitations, invitation_fields, call, pending, memberships, converter>>
    /\ IF pk \notin get_queryset(caller) \/ rid \notin RentersOf(renters, pk)
       THEN /\ last' = RenterDone("remove_renter", "404", 0, 0, FALSE)
            /\ UNCHANGED renters
       ELSE /\ renters' = [renters EXCEPT ![rid] = Deleted]
            /\ last' = RenterDone("remove_renter", "deleted", pk, rid, FALSE)

\* InvitationViewSet.create (ModelViewSet): the serializer's unique-together
\* validator refuses a second invitation of an address to a household
invitation_create(caller, e, h) ==
    /\ nops < MaxOps
    /\ nops' = nops + 1
    /\ UNCHANGED <<today, households, agreements, tenancies, users, renters, call, pending, memberships, converter>>
    /\ IF ~EmailStr(e) \/ Invitation(e, h) \in invitations
       THEN /\ last' = Done("invitation_create", "400", [email |-> e])
            /\ UNCHANGED <<invitations, invitation_fields>>
       ELSE /\ invitations' = invitations \cup {Invitation(e, h)}
            /\ invitation_fields' = TenantInvitation_save(invitation_fields, invitations', today)
            /\ last' = Done("invitation_create", "created", [email |-> e])

\* midnight: timezone.now().date() moves on
Tick ==
    /\ today < MaxDay
    /\ today' = today + 1
    /\ UNCHANGED <<households, agreements, tenancies, users, renters, invitations, invitation_fields, call, pending, last, nops, memberships, converter>>

Init ==
    /\ today = 1
    /\ households = Households
    /\ agreements = <<>>
    /\ tenancies = <<>>
    /\ users = [e \in {email(u) : u \in Callers} |-> create_user("secret", NoProfile, TRUE)]
    /\ renters = <<>>
    /\ invitations = {}
    /\ invitation_fields = [k \in {} |-> k]
    /\ memberships = {}
    /\ converter = [temp_files |-> <<>>, disk |-> {}]
    /\ call = NoCall
    /\ pending = [w \in Workers |-> Idle]
    /\ last = NoLast
    /\ nops = 0

\* the extraction pipeline alone
NextExtract ==
    \/ \E c \in Callers, h \in HouseholdIds, f \in UploadedFiles : upload_tenancy_begin(c, h, f)
    \/ \E e \in Envs : upload_tenancy_finish(e)
    \/ \E c \in Callers, pk \in 1..(MaxAgreements + 1) : process_tenancy_begin(c, pk)
    \/ \E e \in Envs : process_tenancy_finish(e)

SpecExtract == Init /\ [][NextExtract]_vars

----------------------------------------------------------------------------
(* Properties of the extraction pipeline, under SpecExtract *)

AgreementIdsNow == 1..Len(agreements)

C6_data_iff_processed ==
    \A i \in AgreementIdsNow :
        (agreements[i].extracted_data # NullData) <=> (agreements[i].status = "processed")

\* a record failed on a second run after a first failure, next to a
\* processed one
C6_witness ==
    /\ call = NoCall
    /\ last.op = "process_tenancy" /\ last.outcome = "500"
    /\ last.ta \in AgreementIdsNow
    /\ agreements[last.ta].status = "failed"
    /\ \E j \in AgreementIdsNow : agreements[j].status = "processed"

\* C7: a record is in 'processing' only while the call that put it there is
\* still running; when the call has returned the record is 'processed' or
\* 'failed', whatever went wrong in the extraction.
C7_never_left_processing ==
    \A i \in AgreementIdsNow :
        agreements[i].status = "processing" => call # NoCall /\ call.ta = i

\* an upload whose extraction raised has returned, its record is 'failed'
C7_witness ==
    /\ call = NoCall
    /\ last.op = "upload_tenancy" /\ last.outcome = "201"
    /\ last.status = "failed"
    /\ agreements[last.ta].status = "failed"

\* C8: the row upload_tenancy inserts has status 'pending'.
C8_created_pending ==
    [][\A i \in 1..Len(agreements') :
          i > Len(agreements) => agreements'[i].status = "pending"]_vars

\* C9: a record is 'processed' only if the data extracted for it passes
\* TenancyExtractedSchema.
C9_processed_only_if_valid ==
    \A i \in AgreementIdsNow :
        agreements[i].status = "processed" => TenancyExtractedSchema(agreements[i].extracted_data)

----------------------------------------------------------------------------
(* The provider called on its own *)

\* FileConverter (ai_services/utils/file_converter.py)
REQUIRES_CONVERSION == {".docx", ".doc", ".jpg", ".jpeg", ".png", ".webp"}

needs_conversion(ext) == ext \in REQUIRES_CONVERSION

\* the n-th call's NamedTemporaryFile and mkdtemp directory
OutputPath(n) == [kind |-> "file", n |-> n]
TempDir(n) == [kind |-> "dir", n |-> n]

\* what the external tool does in a call
ConversionOutcomes == {"ok", "nonzero_exit", "no_output", "empty_output", "timeout", "exception"}

RemoveFrom(seq, x) == SelectSeq(seq, LAMBDA y : y # x)

\* FileConverter._cleanup_file
cleanup_file(conv, path) ==
    IF path \in conv.disk
    THEN [temp_files |-> RemoveFrom(conv.temp_files, path), disk |-> conv.disk \ {path}]
    ELSE conv

\* FileConverter._convert_docx_to_pdf: mkdtemp, then LibreOffice; the
\* directory is removed only after the output was moved away ("exception"
\* is subprocess.run raising, "empty_output" a zero-byte PDF)
convert_docx_to_pdf(conv, how, n) ==
    IF how \in {"ok", "empty_output"}
    THEN [success |-> TRUE, conv |-> conv]
    ELSE [success |-> FALSE, conv |-> [conv EXCEPT !.disk = @ \cup {TempDir(n)}]]

\* FileConverter._convert_image_to_pdf: Pillow writes into the output path
convert_image_to_pdf(conv, how, n) ==
    [success |-> how \in {"ok", "empty_output"}, conv |-> conv]

\* FileConverter.convert_to_pdf as the n-th call: the path returned ("None",
\* "input" or "output") and the converter afterwards
convert_to_pdf_result(conv, ext, input_exists, how, n) ==
    IF ~input_exists THEN [result |-> "None", conv |-> conv]
    ELSE IF ext = ".pdf" THEN [result |-> "input", conv |-> conv]
    ELSE IF ~needs_conversion(ext) THEN [result |-> "input", conv |-> conv]
    ELSE LET c0 == [temp_files |-> Append(conv.temp_files, OutputPath(n)),
                    disk |-> conv.disk \cup {OutputPath(n)}]
             r == IF ext \in {".docx", ".doc"} THEN convert_docx_to_pdf(c0, how, n)
                  ELSE convert_image_to_pdf(c0, how, n)
         IN  IF r.success /\ how # "empty_output"
             THEN [result |-> "output", conv |-> r.conv]
             ELSE [result |-> "None", conv |-> cleanup_file(r.conv, OutputPath(n))]

convert_to_pdf(ext, input_exists, how) ==
    /\ nops < MaxOps
    /\ nops' = nops + 1
    /\ LET r == convert_to_pdf_result(converter, ext, input_exists, how, nops + 1)
       IN  /\ converter' = r.conv
           /\ last' = Done("convert_to_pdf", r.result, [ext |-> ext, input_exists |-> input_exists, how |-> how])
    /\ UNCHANGED <<today, households, agreements, tenancies, users, renters, invitations, invitation_fields,
                   memberships, call, pending>>

\* FileConverter.cleanup_all
cleanup_all ==
    /\ converter.temp_files # <<>>
    /\ converter' = [temp_files |-> <<>>,
                     disk |-> converter.disk \ { converter.temp_files[i] : i \in DOMAIN converter.temp_files }]
    /\ last' = Done("cleanup_all", "", [ext |-> "", input_exists |-> TRUE, how |-> "ok"])
    /\ UNCHANGED <<today, households, agreements, tenancies, users, renters, invitations, invitation_fields,
                   memberships, call, pending, nops>>

ConverterExtensions == {".pdf", ".docx", ".png", ".txt"}

NextConverter ==
    \/ \E ext \in ConverterExtensions, input_exists \in BOOLEAN, how \in ConversionOutcomes :
           convert_to_pdf(ext, input_exists, how)
    \/ cleanup_all

SpecConverter == Init /\ [][NextConverter]_vars

\* the requests extract_tenant_data sends to the AI service, in order:
\* validate_api_key probes a configured key with genai.list_models(); the
\* upload and the generation request follow the two file checks
ExternalCalls(ext, env) ==
    IF env.api_key = "missing" THEN <<>>
    ELSE IF ~validate_api_key(env) \/ ~env.file_exists \/ ~is_supported_file(ext) THEN <<"list_models">>
    ELSE IF env.network # "ok" THEN <<"list_models", "upload_file">>
    ELSE <<"list_models", "upload_file", "generate_content">>

\* file names a caller of the provider may pass, by extension
Extensions == {".pdf", ".docx", ".exe", ".txt", ""}

\* one call of GeminiProvider().extract_tenant_data(file_path)
provider_extract(ext, env) ==
    /\ nops < MaxOps
    /\ nops' = nops + 1
    /\ last' = Done("extract_tenant_data",
                    IF extract_tenant_data(ext, env).ok THEN "returned" ELSE "raised",
                    [ext |-> ext, env |-> env, error |-> extract_tenant_data(ext, env).error,
                     calls |-> ExternalCalls(ext, env)])
    /\ UNCHANGED <<today, households, agreements, tenancies, users, renters, invitations, invitation_fields, call, pending, memberships, converter>>

NextProvider == \E ext \in Extensions, env \in Envs : provider_extract(ext, env)

SpecProvider == Init /\ [][NextProvider]_vars

----------------------------------------------------------------------------
(* The tenancy lifecycle with the confirm step *)

\* provider answers used where the content of the extraction does not matter
FewEnvs ==
    { GoodEnv(<<Doc(JDict(JDate(1), JDate(2), JNum(1500), JNum(3000), RentersList(<<John, Jane>>), JNull, JNull))>>),
      Env(TRUE, "valid", TRUE, "error", <<>>) }

\* confirm payloads of the lifecycle: every valid one, and one of each kind
\* the schema refuses
LifecycleConfirmPayloads ==
    { ConfirmPayload(t.name, d[1], d[2], t.monthly_rent, t.deposit) : t \in Terms, d \in GoodDates }
    \cup { ConfirmPayload("Lease A", MaxDay, MaxDay, 1500, 3000),
           ConfirmPayload("Lease A", 1, NoDate, -1, 0) }

CreatePayloads ==
    { CreatePayload(h, d[1], d[2], 1500, 0, st, <<>>) :
        h \in Households, d \in GoodDates, st \in {"future", "active"} }
    \cup { CreatePayload("h9", 1, NoDate, 1500, 0, "future", <<>>),
           CreatePayload("h1", MaxDay, MaxDay, 1500, 0, "future", <<>>),
           CreatePayload("h1", NoDate, NoDate, 1500, 0, "future", <<>>),
           CreatePayload("invalid", 1, NoDate, 1500, 0, "future", <<>>),
           CreatePayload("h1", 1, NoDate, -1, 0, "future", <<>>),
           CreatePayload("h1", 1, NoDate, 1500, -1, "future", <<>>),
           CreatePayload("h1", 1, NoDate, 1500, 0, "bogus", <<>>) }

UpdatePayloads ==
    { UpdatePayload(NoDate, NoDate, None, None, st) : st \in STATUS_CHOICES \cup {"bogus"} }
    \cup { UpdatePayload(sd, ed, None, None, "") : sd \in {NoDate, MaxDay}, ed \in {NoDate, 1, MaxDay + 1} }
    \cup { UpdatePayload(NoDate, NoDate, Some(1700), Some(100), ""),
           UpdatePayload(NoDate, NoDate, Some(-1), None, ""),
           UpdatePayload(NoDate, NoDate, None, Some(-1), "") }

TenancyIds == 1..(MaxTenancies + 1)
AgreementIds == 1..(MaxAgreements + 1)

Next ==
    \/ \E c \in Landlords, h \in Households, e \in FewEnvs : upload_tenancy(c, h, Upload(".pdf", TRUE), e)
    \/ \E c \in Landlords, pk \in 1..MaxAgreements, e \in FewEnvs : process_tenancy(c, pk, e)
    \/ \E c \in Callers, ta \in AgreementIds, p \in LifecycleConfirmPayloads : confirm_tenancy(c, ta, p)
    \/ \E c \in Callers, p \in CreatePayloads : create(c, p, TRUE)
    \/ \E c \in Callers, pk \in TenancyIds, p \in UpdatePayloads : update(c, pk, p)
    \/ \E c \in Callers, pk \in TenancyIds : activate(c, pk)
    \/ \E c \in Callers, pk \in TenancyIds, ed \in {NoDate} \cup Days : start_moveout(c, pk, ed)
    \/ \E c \in Callers, pk \in TenancyIds : mark_moved_out(c, pk)
    \/ \E c \in Callers, pk \in TenancyIds : destroy(c, pk)
    \/ Tick

Spec == Init /\ [][Next]_vars

\* confirm payloads of the onboarding flow: one lease with every pair of
\* dates, and one of each kind of amount or name the schema refuses
OnboardingConfirmPayloads ==
    { ConfirmPayload("Lease A", d[1], d[2], 1500, 3000) : d \in DatePairs }
    \cup { ConfirmPayload("", 1, NoDate, 1500, 0),
           ConfirmPayload("Lease A", 1, NoDate, -1, 0),
           ConfirmPayload("Lease A", 1, NoDate, 1500, -1) }

\* the onboarding flow of household h1: uploads whose extraction is still
\* running while confirm requests of its landlord, of the other landlord and
\* of an admin come in
NextOnboarding ==
    \/ \E c \in Landlords : upload_tenancy_begin(c, "h1", Upload(".pdf", TRUE))
    \/ \E e \in FewEnvs : upload_tenancy_finish(e)
    \/ \E c \in Landlords, pk \in 1..MaxAgreements : process_tenancy_begin(c, pk)
    \/ \E e \in FewEnvs : process_tenancy_finish(e)
    \/ nops < MaxConfirms /\ \E c \in Callers, ta \in AgreementIds, p \in OnboardingConfirmPayloads :
                              confirm_tenancy(c, ta, p)
    \/ Tick

SpecOnboarding == Init /\ [][NextOnboarding]_vars

\* renter lists a create request may carry
RenterLists ==
    LET one == { RenterEntry(e, b) : e \in {"john@example.com", "jane@example.com"}, b \in BOOLEAN }
    IN  {<<>>} \cup { <<x>> : x \in one } \cup { <<x, y>> : x \in one, y \in one }
        \cup { <<RenterEntry("not-an-email", TRUE)>>,
               <<RenterEntry("l2@example.com", TRUE), RenterEntry("john@example.com", FALSE)>> }

RenterCreatePayloads ==
    { CreatePayload(h, 1, NoDate, 1500, 0, "future", rs) : h \in Households, rs \in RenterLists }

\* tenancies and their renters
NextRenters ==
    \/ nops < MaxRenterOps /\ \E p \in RenterCreatePayloads, ok \in BOOLEAN : create("l1", p, ok)
    \/ nops < MaxRenterOps /\ \E c \in {"l1", "admin"}, pk \in 1..MaxTenancies, e \in RenterEmails, b, ok \in BOOLEAN :
                                add_renter(c, pk, e, b, ok)
    \/ nops < MaxRenterOps /\ \E c \in {"l1", "l2"}, pk \in 1..MaxTenancies, rid \in 1..MaxRenters :
                                remove_renter(c, pk, rid)
    \/ nops < MaxRenterOps /\ \E h \in Households : invitation_create("l1", "john@example.com", h)

SpecRenters == Init /\ [][NextRenters]_vars

----------------------------------------------------------------------------
(* Households *)

\* HouseholdViewSet.get_queryset for admins and landlords
household_queryset(caller) ==
    IF is_admin(caller) THEN households
    ELSE { h \in households : landlord(h) = caller }

\* HouseholdViewSet.destroy (ModelViewSet): instance.delete() removes the
\* household and, through on_delete=CASCADE, its agreements, its tenancies
\* with their renters, and its invitations
household_destroy(caller, h) ==
    /\ nops < MaxOps
    /\ nops' = nops + 1
    /\ UNCHANGED <<today, users, call, pending, converter>>
    /\ IF h \notin household_queryset(caller)
       THEN /\ last' = Done("household_destroy", "404", [household |-> h])
            /\ UNCHANGED <<households, agreements, tenancies, renters, invitations, invitation_fields, memberships>>
       ELSE /\ households' = households \ {h}
            /\ agreements' = [i \in 1..Len(agreements) |->
                                IF agreements[i].household = h THEN GoneAgreement ELSE agreements[i]]
            /\ tenancies' = [i \in 1..Len(tenancies) |->
                               IF tenancies[i].household = h THEN GoneTenancy ELSE tenancies[i]]
            /\ renters' = [i \in 1..Len(renters) |->
                             IF /\ ~renters[i].deleted
                                /\ tenancies[renters[i].tenancy].household = h
                             THEN Deleted ELSE renters[i]]
            /\ invitations' = { v \in invitations : v.household # h }
            /\ invitation_fields' = TenantInvitation_save(invitation_fields, invitations', today)
            /\ memberships' = { m \in memberships : m.household # h }
            /\ last' = Done("household_destroy", "204", [household |-> h])

\* tenancies with renters, their logical deletion, and the deletion of
\* households
NextHouseholds ==
    \/ \E c \in Landlords, h \in Households, e \in FewEnvs : upload_tenancy(c, h, Upload(".pdf", TRUE), e)
    \/ \E c \in Callers, h \in Households, st \in {"future", "active"},
          rs \in {<<>>, <<RenterEntry("john@example.com", TRUE)>>} :
          create(c, CreatePayload(h, 1, NoDate, 1500, 0, st, rs), TRUE)
    \/ \E c \in Callers, pk \in TenancyIds : destroy(c, pk)
    \/ \E c \in Callers, h \in Households : household_destroy(c, h)

SpecHouseholds == Init /\ [][NextHouseholds]_vars

----------------------------------------------------------------------------
(* Requests served at the same time.  None of the tenancy views takes a     *)
(* lock; confirm_tenancy and activate run in autocommit mode, so each       *)
(* statement is its own transaction, and create and update hold one write.  *)
(* A request is taken in two steps: its reads and checks, which leave the   *)
(* instance it loaded in pending[w], and its write, Model.save() of that    *)
(* instance, which writes every field of it.                                *)

Start(w, rec) ==
    /\ pending' = [pending EXCEPT ![w] = rec]
    /\ UNCHANGED <<tenancies, last>>

\* an answer given before any write
Refuse(rec) ==
    /\ last' = rec
    /\ UNCHANGED <<tenancies, pending>>

\* lines 329-343 of confirm_tenancy: schema, agreement, lookup by proof_document
confirm_tenancy_lookup(w, caller, ta, p) ==
    /\ pending[w] = Idle
    /\ nops < MaxOps
    /\ nops' = nops + 1
    /\ UNCHANGED <<today, households, agreements, users, renters, invitations, invitation_fields, call, memberships, converter>>
    /\ IF ~TenancyConfirmSchema(ta, p) THEN Refuse(ConfirmDone(caller, ta, p, "400", 0, ""))
       ELSE IF ~ConfirmableAgreement(caller, ta) THEN Refuse(ConfirmDone(caller, ta, p, "500", 0, ""))
       ELSE LET existing == FirstByProof(tenancies, AgreementFile(ta))
            IN  IF existing = {}
                THEN Start(w, [pc |-> "confirm_tenancy", caller |-> caller, ta |-> ta, p |-> p,
                               existing |-> 0, row |-> NullData])
                ELSE \E pk \in existing :
                        Start(w, [pc |-> "confirm_tenancy", caller |-> caller, ta |-> ta, p |-> p,
                                  existing |-> pk, row |-> tenancies[pk]])

\* lines 345-386 of confirm_tenancy: existing_tenancy.save() or
\* Tenancy.objects.create(), and the answer
confirm_tenancy_write(w) ==
    /\ pending[w].pc = "confirm_tenancy"
    /\ pending' = [pending EXCEPT ![w] = Idle]
    /\ UNCHANGED <<today, households, agreements, users, renters, invitations, invitation_fields, call, nops, memberships, converter>>
    /\ LET q == pending[w]
           tens == IF q.existing # 0
                   THEN [tenancies EXCEPT ![q.existing] = ConfirmUpdate(q.row, q.p, today)]
                   ELSE Append(tenancies, ConfirmCreate(agreements[q.ta], AgreementFile(q.ta), q.p, today))
       IN  IF one_active_tenancy_per_household(tens)
           THEN /\ Len(tens) <= MaxTenancies
                /\ tenancies' = tens
                /\ last' = IF q.existing # 0
                           THEN ConfirmDone(q.caller, q.ta, q.p, "updated", q.existing, tenancies[q.existing].status)
                           ELSE ConfirmDone(q.caller, q.ta, q.p, "created", Len(tens), "")
           ELSE /\ UNCHANGED tenancies
                /\ last' = ConfirmDone(q.caller, q.ta, q.p, "500", 0, "")

\* lines 306-326 of activate: get_object and the look for another active tenancy
activate_check(w, caller, pk) ==
    /\ pending[w] = Idle
    /\ nops < MaxOps
    /\ nops' = nops + 1
    /\ UNCHANGED <<today, households, agreements, users, renters, invitations, invitation_fields, call, memberships, converter>>
    /\ IF pk \notin get_queryset(caller) THEN Refuse(TenancyDone("activate", "404", 0))
       ELSE IF OtherActive(tenancies, tenancies[pk].household, pk) # {}
       THEN Refuse(TenancyDone("activate", "400", 0))
       ELSE Start(w, [pc |-> "activate", pk |-> pk, row |-> [tenancies[pk] EXCEPT !.status = "active"]])

\* lines 176-196 of update: schema, assignment of the fields, full_clean
update_validate(w, caller, pk, p) ==
    /\ pending[w] = Idle
    /\ nops < MaxOps
    /\ nops' = nops + 1
    /\ UNCHANGED <<today, households, agreements, users, renters, invitations, invitation_fields, call, memberships, converter>>
    /\ IF pk \notin get_queryset(caller) THEN Refuse(TenancyDone("update", "404", 0))
       ELSE IF ~TenancyUpdateSchema(p) THEN Refuse(TenancyDone("update", "400", 0))
       ELSE IF ~full_clean(tenancies, UpdateFields(tenancies[pk], p), pk)
       THEN Refuse(TenancyDone("update", "400", 0))
       ELSE Start(w, [pc |-> "update", pk |-> pk, row |-> UpdateFields(tenancies[pk], p)])

\* lines 86-119 of create: schema, household, permission, full_clean
create_validate(w, caller, p) ==
    /\ pending[w] = Idle
    /\ nops < MaxOps
    /\ nops' = nops + 1
    /\ UNCHANGED <<today, households, agreements, users, renters, invitations, invitation_fields, call, memberships, converter>>
    /\ LET row == NewTenancy(p.household_id, "Unnamed Tenancy", p.status, p.start_date,
                             p.end_date, p.monthly_rent, p.deposit, NoFile)
       IN  IF ~TenancyCreateSchema(p) \/ p.household_id \notin households
           THEN Refuse(TenancyDone("create", "400", 0))
           ELSE IF ~is_admin(caller) /\ landlord(p.household_id) # caller
           THEN Refuse(TenancyDone("create", "403", 0))
           ELSE IF ~full_clean(tenancies, row, 0) THEN Refuse(TenancyDone("create", "400", 0))
           ELSE Start(w, [pc |-> "create", pk |-> 0, row |-> row])

\* tenancy.save() of activate (line 329), update (198) and create (121, with
\* no renters to add) and the answer.  The database refuses a second active
\* row of the household: create and update catch the IntegrityError and
\* answer 400, activate lets it through and the framework answers 500
tenancy_save(w) ==
    /\ pending[w].pc \in {"activate", "update", "create"}
    /\ pending' = [pending EXCEPT ![w] = Idle]
    /\ UNCHANGED <<today, households, agreements, users, renters, invitations, invitation_fields, call, nops, memberships, converter>>
    /\ LET q == pending[w]
           tens == IF q.pk = 0 THEN Append(tenancies, q.row) ELSE [tenancies EXCEPT ![q.pk] = q.row]
       IN  IF one_active_tenancy_per_household(tens)
           THEN /\ Len(tens) <= MaxTenancies
                /\ tenancies' = tens
                /\ last' = TenancyDone(q.pc, IF q.pk = 0 THEN "created" ELSE "saved",
                                       IF q.pk = 0 THEN Len(tens) ELSE q.pk)
           ELSE /\ UNCHANGED tenancies
                /\ last' = TenancyDone(q.pc, IF q.pc = "activate" THEN "500" ELSE "400", 0)

\* requests of the race: the landlord of h1 and one caller who is refused
RaceConfirmPayloads ==
    { ConfirmPayload("Lease A", 1, NoDate, 1500, 3000),
      ConfirmPayload("Lease A", MaxDay + 1, NoDate, 1500, 3000),
      ConfirmPayload("", 1, NoDate, 1500, 3000) }

RaceCreatePayloads ==
    { CreatePayload("h1", 1, NoDate, 1500, 0, st, <<>>) : st \in {"future", "active", "bogus"} }

RaceUpdatePayloads ==
    { UpdatePayload(NoDate, NoDate, None, None, st) : st \in {"active", "moved_out", "bogus"} }

NextRace ==
    \/ \E e \in FewEnvs : upload_tenancy("l1", "h1", Upload(".pdf", TRUE), e)
    \/ \E w \in Workers, c \in Landlords, ta \in 1..MaxAgreements, p \in RaceConfirmPayloads :
          confirm_tenancy_lookup(w, c, ta, p)
    \/ \E w \in Workers : confirm_tenancy_write(w)
    \/ \E w \in Workers, c \in Landlords, pk \in 1..MaxTenancies : activate_check(w, c, pk)
    \/ \E w \in Workers, c \in Landlords, pk \in 1..MaxTenancies, p \in RaceUpdatePayloads :
          update_validate(w, c, pk, p)
    \/ \E w \in Workers, c \in Landlords, p \in RaceCreatePayloads : create_validate(w, c, p)
    \/ \E w \in Workers : tenancy_save(w)

SpecRace == Init /\ [][NextRace]_vars

\* add_renter is one transaction (read committed): the statements of
\* Renter.save, the UPDATE that demotes the primary renters and the INSERT of
\* the new row, are two steps, and what the transaction has written shows to
\* other requests when it commits.

\* add_renter up to the UPDATE of Renter.save: get_object, schema, user
\* lookup, duplicate check, and the rows the UPDATE demotes (and locks until
\* the commit)
add_renter_demote(w, caller, pk, e, primary) ==
    /\ pending[w] = Idle
    /\ nops < MaxOps
    /\ nops' = nops + 1
    /\ UNCHANGED <<today, households, agreements, tenancies, users, renters, invitations, invitation_fields, call, memberships, converter>>
    /\ IF pk \notin get_queryset(caller)
       THEN /\ last' = AddRenterDone("404", 0, 0, primary, e)
            /\ UNCHANGED pending
       ELSE IF ~EmailStr(e) \/ (e \in DOMAIN users /\ \E i \in RentersOf(renters, pk) : renters[i].user = e)
       THEN /\ last' = AddRenterDone("400", pk, 0, primary, e)
            /\ UNCHANGED pending
       ELSE LET rows == IF primary THEN PrimaryOf(renters, pk) ELSE {}
            IN  /\ \A v \in Workers \ {w} : pending[v].pc = "add_renter" => pending[v].demoted \cap rows = {}
                /\ pending' = [pending EXCEPT ![w] =
                                 [pc |-> "add_renter", pk |-> pk, email |-> e, is_primary |-> primary,
                                  new_user |-> e \notin DOMAIN users, demoted |-> rows]]
                /\ UNCHANGED last

\* add_renter from the INSERT of Renter.save to the commit and the answer.
\* The INSERT fails on unique_together (tenancy, user); for a new user the
\* placeholder user, the invitation and the mail can fail as well.  None of
\* these exceptions is caught by the view: the transaction is rolled back
add_renter_insert(w, mailOK) ==
    /\ pending[w].pc = "add_renter"
    /\ pending' = [pending EXCEPT ![w] = Idle]
    /\ UNCHANGED <<today, households, agreements, tenancies, call, nops, memberships, converter>>
    /\ LET q == pending[w]
           h == tenancies[q.pk].household
           rs == Append([i \in 1..Len(renters) |->
                           IF i \in q.demoted THEN [renters[i] EXCEPT !.is_primary = FALSE] ELSE renters[i]],
                        NewRenter(q.pk, q.email, q.is_primary))
           raised == \/ \E i \in RentersOf(renters, q.pk) : renters[i].user = q.email
                     \/ q.new_user /\ q.email \in DOMAIN users
                     \/ q.new_user /\ Invitation(q.email, h) \in invitations
                     \/ q.new_user /\ ~mailOK
       IN  IF raised
           THEN /\ last' = AddRenterDone("500", q.pk, 0, q.is_primary, q.email)
                /\ UNCHANGED <<users, renters, invitations, invitation_fields>>
           ELSE /\ Len(rs) <= MaxRenters
                /\ renters' = rs
                /\ users' = IF q.new_user
                            THEN [x \in DOMAIN users \cup {q.email} |->
                                    IF x = q.email THEN create_user(NoPassword, NoProfile, FALSE) ELSE users[x]]
                            ELSE users
                /\ invitations' = IF q.new_user THEN invitations \cup {Invitation(q.email, h)} ELSE invitations
                /\ invitation_fields' = TenantInvitation_save(invitation_fields, invitations', today)
                /\ last' = AddRenterDone("created", q.pk, Len(rs), q.is_primary, q.email)

\* a tenancy of h1 with no renter or with a primary one, then add_renter
\* requests served at the same time
NextRenterRace ==
    \/ nops < MaxRenterOps /\ \E rs \in {<<>>, <<RenterEntry("jane@example.com", TRUE)>>} :
                                create("l1", CreatePayload("h1", 1, NoDate, 1500, 0, "future", rs), TRUE)
    \/ nops < MaxRenterOps /\ \E w \in Workers, c \in Landlords, pk \in 1..MaxTenancies, b \in BOOLEAN,
                                 e \in {"john@example.com", "l2@example.com", "not-an-email"} :
                                add_renter_demote(w, c, pk, e, b)
    \/ \E w \in Workers, ok \in BOOLEAN : add_renter_insert(w, ok)

SpecRenterRace == Init /\ [][NextRenterRace]_vars

----------------------------------------------------------------------------
(* Properties of confirm_tenancy and of the tenancy lifecycle *)

\* a step that answers a confirm_tenancy request
ConfirmStep == nops' = nops + 1 /\ last'.op = "confirm_tenancy"

\* rows linked to the file of agreement ta
LinkedTo(tens, ta) == { i \in 1..Len(tens) : tens[i].proof_document = AgreementFile(ta) }

\* C1 as stated: when a confirm_tenancy call that wrote a tenancy is followed
\* by a call with the same agreement id and the same payload, exactly one
\* Tenancy is linked to the agreement's file afterwards and the second call
\* has updated the row the first one wrote.
C1_confirm_idempotent_as_stated ==
    [][ConfirmStep /\ last'.repeat
          => /\ Len(tenancies') = Len(tenancies)
             /\ LinkedTo(tenancies', last'.ta) = {last.tenancy}
             /\ last'.outcome = "updated" /\ last'.tenancy = last.tenancy]_vars

\* C1 amended: when a confirm_tenancy call that wrote a tenancy is followed
\* by a call with the same agreement id and the same payload, exactly one
\* Tenancy is linked to the agreement's file afterwards and no row is added.
\* On the same day the second call updates the row the first one wrote and
\* leaves the table as it was; after midnight it either updates that row or
\* is refused by the database and changes nothing.
C1_confirm_idempotent ==
    [][ConfirmStep /\ last'.repeat
          => /\ Len(tenancies') = Len(tenancies)
             /\ LinkedTo(tenancies', last'.ta) = {last.tenancy}
             /\ \/ last'.outcome = "updated" /\ last'.tenancy = last.tenancy
                \/ last'.outcome = "500" /\ tenancies' = tenancies /\ last.day # today
             /\ last.day = today => tenancies' = tenancies /\ last'.outcome = "updated"]_vars

\* a first confirm created the row and the repeated confirm has updated it
C1_witness ==
    /\ last.op = "confirm_tenancy"
    /\ last.repeat
    /\ last.outcome = "updated"
    /\ last.was \in {"active", "future"}
    /\ LinkedTo(tenancies, last.ta) = {last.tenancy}

\* C2: every household has at most one Tenancy with status 'active'.
C2_one_active_per_household ==
    \A h \in Households :
        Cardinality({ i \in 1..Len(tenancies) :
                        tenancies[i].household = h /\ tenancies[i].status = "active" }) <= 1

\* a household with an active tenancy and a second tenancy, right after a
\* request that would have made the second one active was refused
C2_witness ==
    /\ last.op \in {"activate", "update", "create", "confirm_tenancy"}
    /\ last.outcome \in {"400", "500"}
    /\ \E i, j \in 1..Len(tenancies) :
          /\ i # j
          /\ tenancies[i].household = tenancies[j].household
          /\ tenancies[i].status = "active"
          /\ tenancies[j].status = "future"
          /\ tenancies[j].start_date <= today

\* the address of the last entry of a renter list marked primary, "" if none
LastPrimaryEmail(list) ==
    LET marked == { i \in 1..Len(list) : list[i].is_primary }
    IN  IF marked = {} THEN "" ELSE list[Max(marked)].email

\* C3: at every moment each tenancy has at most one primary renter; after
\* add_renter has added a renter with is_primary=true that renter is the only
\* primary one of its tenancy, and after a create request with a renter list
\* the only primary renter is the last one the list marks primary.
C3_one_primary_renter ==
    [][/\ \A t \in 1..Len(tenancies') : Cardinality(PrimaryOf(renters', t)) <= 1
       /\ (nops' = nops + 1 /\ last'.op = "add_renter" /\ last'.outcome = "created" /\ last'.is_primary)
             => /\ last'.renter = Len(renters')
                /\ { i \in 1..Len(renters') : renters'[i].tenancy = last'.tenancy /\ renters'[i].is_primary }
                     = {last'.renter}
       /\ (nops' = nops + 1 /\ last'.op = "create" /\ last'.outcome = "created")
             => \A p \in RenterCreatePayloads :
                  create("l1", p, TRUE)
                    => { renters'[i].user : i \in { j \in 1..Len(renters') :
                                                      /\ renters'[j].tenancy = last'.tenancy
                                                      /\ renters'[j].is_primary } }
                         = { LastPrimaryEmail(p.renters) } \ {""}]_vars

\* a tenancy has three renters, the one added last as primary has taken the
\* place of an earlier primary renter
C3_witness ==
    /\ last.op = "add_renter" /\ last.outcome = "created" /\ last.is_primary
    /\ Cardinality(RentersOf(renters, last.tenancy)) = 3
    /\ PrimaryOf(renters, last.tenancy) = {last.renter}
    /\ \E i \in RentersOf(renters, last.tenancy) : i < last.renter /\ ~renters[i].is_primary

\* C4: a confirm_tenancy call changes the Tenancy table only if the agreement
\* it names exists, belongs to a household of the caller and is 'processed';
\* otherwise the call is answered with an error and no Tenancy is created or
\* changed.
C4_confirm_precondition ==
    [][ConfirmStep
          => LET ok == /\ last'.ta \in 1..Len(agreements)
                       /\ landlord(agreements[last'.ta].household) = last'.caller
                       /\ agreements[last'.ta].status = "processed"
             IN  /\ tenancies' # tenancies => ok
                 /\ ~ok => last'.outcome \in {"400", "500"} /\ tenancies' = tenancies]_vars

\* the landlord's confirm for their own agreement was refused because its
\* extraction is still running, and the tenancy of another agreement stands
C4_witness ==
    /\ last.op = "confirm_tenancy"
    /\ last.outcome = "500"
    /\ last.ta \in 1..Len(agreements)
    /\ landlord(agreements[last.ta].household) = last.caller
    /\ agreements[last.ta].status = "processing"
    /\ Len(tenancies) = 1
    /\ LinkedTo(tenancies, last.ta) = {}

\* C10: after a successful confirm_tenancy call, on the create and on the
\* update path, the written Tenancy carries the confirmed start date and is
\* 'active' if that date is on or before today, 'future' otherwise,
\* whatever its status was before.
C10_status_derived ==
    [][ConfirmStep /\ last'.outcome \in {"created", "updated"}
          => LET row == tenancies'[last'.tenancy]
             IN  /\ row.start_date = last'.start_date
                 /\ last'.start_date <= today => row.status = "active"
                 /\ last'.start_date > today => row.status = "future"]_vars

\* a confirm has turned a tenancy that was moving out or moved out back
\* into a future one
C10_witness ==
    /\ last.op = "confirm_tenancy"
    /\ last.outcome = "updated"
    /\ last.was \in {"moving_out", "moved_out"}
    /\ tenancies[last.tenancy].status = "future"

----------------------------------------------------------------------------
(* Refused writes *)

\* the outcomes that stand for an error response
ErrorOutcomes == {"400", "403", "404", "500"}

\* C11: when a household already has an active Tenancy, a request that would
\* make a different Tenancy of that household active (activate, update with
\* status 'active', create with status 'active') is answered with an error
\* and the Tenancy table is left as it was: the active tenancy stays as it
\* is and the targeted tenancy keeps its status.
C11_second_active_refused ==
    [][/\ (nops' = nops + 1 /\ last'.op = "activate")
             => \A c \in Callers, pk \in 1..Len(tenancies) :
                  (/\ \E i \in 1..Len(tenancies) :
                         /\ i # pk
                         /\ tenancies[i].household = tenancies[pk].household
                         /\ tenancies[i].status = "active"
                   /\ activate(c, pk))
                    => last'.outcome \in ErrorOutcomes /\ tenancies' = tenancies
       /\ (nops' = nops + 1 /\ last'.op = "update")
             => \A c \in Callers, pk \in 1..Len(tenancies), p \in UpdatePayloads :
                  (/\ p.status = "active"
                   /\ \E i \in 1..Len(tenancies) :
                         /\ i # pk
                         /\ tenancies[i].household = tenancies[pk].household
                         /\ tenancies[i].status = "active"
                   /\ update(c, pk, p))
                    => last'.outcome \in ErrorOutcomes /\ tenancies' = tenancies
       /\ (nops' = nops + 1 /\ last'.op = "create")
             => \A c \in Callers, p \in CreatePayloads :
                  (/\ p.status = "active"
                   /\ \E i \in 1..Len(tenancies) :
                         /\ tenancies[i].household = p.household_id
                         /\ tenancies[i].status = "active"
                   /\ create(c, p, TRUE))
                    => last'.outcome \in ErrorOutcomes /\ tenancies' = tenancies]_vars

\* the landlord's activate of a future tenancy was refused because the
\* household has an active one; both rows stand as they were
C11_witness ==
    /\ last.op = "activate"
    /\ last.outcome = "400"
    /\ Len(tenancies) = 2
    /\ \E i, j \in 1..2 :
          /\ i # j
          /\ tenancies[i].household = tenancies[j].household
          /\ tenancies[i].status = "active"
          /\ tenancies[j].status = "future"

\* C12: a confirm_tenancy call that would leave an active Tenancy in a
\* household that already has a different active one fails as a whole: it is
\* answered with an error, no row is added on the create path and no field
\* of the existing row is changed on the update path.
C12_confirm_conflict_whole ==
    [][ConfirmStep
          => \A p \in LifecycleConfirmPayloads :
               (/\ p.start_date # NoDate /\ p.start_date <= today
                /\ last'.ta \in 1..Len(agreements)
                /\ \E i \in 1..Len(tenancies) :
                      /\ tenancies[i].household = agreements[last'.ta].household
                      /\ tenancies[i].status = "active"
                      /\ tenancies[i].proof_document # AgreementFile(last'.ta)
                /\ confirm_tenancy(last'.caller, last'.ta, p))
                 => /\ last'.outcome \in ErrorOutcomes
                    /\ Len(tenancies') = Len(tenancies)
                    /\ \A i \in 1..Len(tenancies) : tenancies'[i] = tenancies[i]]_vars

\* the update path refused: the landlord's confirm of a processed agreement
\* was answered 500 while its linked tenancy is not active and the household
\* has another, active, tenancy
C12_witness ==
    /\ last.op = "confirm_tenancy"
    /\ last.outcome = "500"
    /\ last.ta \in 1..Len(agreements)
    /\ landlord(agreements[last.ta].household) = last.caller
    /\ agreements[last.ta].status = "processed"
    /\ \E i \in LinkedTo(tenancies, last.ta) : tenancies[i].status = "future"
    /\ \E j \in 1..Len(tenancies) :
          /\ tenancies[j].household = agreements[last.ta].household
          /\ tenancies[j].status = "active"
          /\ j \notin LinkedTo(tenancies, last.ta)

\* C13: every persisted Tenancy has no end date or an end date strictly
\* after its start date, whatever create, update, confirm_tenancy and
\* start_moveout requests came before.
C13_end_after_start ==
    \A i \in 1..Len(tenancies) :
        tenancies[i].end_date = NoDate \/ tenancies[i].end_date > tenancies[i].start_date

----------------------------------------------------------------------------
(* Properties of requests served at the same time *)

\* C14: whatever way the lookups and writes of confirm_tenancy requests for
\* the same agreement interleave, at most one Tenancy references that
\* agreement's file.
C14_one_tenancy_per_agreement ==
    \A ta \in 1..Len(agreements) : Cardinality(LinkedTo(tenancies, ta)) <= 1

\* C15: under every interleaving of activate, confirm_tenancy, create and
\* update requests on tenancies of the same household, the household never
\* has two active Tenancies: of two requests that passed their existence
\* check at the same time, the write of the second one is refused.
C15_one_active_under_race ==
    \A h \in Households :
        Cardinality({ i \in 1..Len(tenancies) :
                        tenancies[i].household = h /\ tenancies[i].status = "active" }) <= 1

\* two requests passed their existence check at the same time and the write
\* of the second one was refused by the database: an activate answered 500
\* while another tenancy of the household is active
C15_witness ==
    /\ last.op = "activate"
    /\ last.outcome = "500"
    /\ \E i, j \in 1..Len(tenancies) :
          /\ i # j
          /\ tenancies[i].household = tenancies[j].household
          /\ tenancies[i].status = "active"
          /\ tenancies[j].status = "future"

\* C16: whatever way the demote-others update and the insert of add_renter
\* requests for the same tenancy interleave, the tenancy has at most one
\* Renter with is_primary=true.
C16_one_primary_under_race ==
    \A t \in 1..Len(tenancies) : Cardinality(PrimaryOf(renters, t)) <= 1

----------------------------------------------------------------------------
(* Properties of the renter reconciliation *)

\* C17: tenancy create is all-or-nothing: a create request that is answered
\* with an error (a renter of its list could not be added) leaves no new
\* Tenancy, Renter, placeholder user or invitation behind.
C17_create_all_or_nothing ==
    [][(nops' = nops + 1 /\ last'.op = "create" /\ last'.outcome # "created")
          => /\ tenancies' = tenancies
             /\ renters' = renters
             /\ users' = users
             /\ invitations' = invitations]_vars

\* C18: when add_renter is called with an address that has no user and the
\* invitation mail cannot be sent, the failure is swallowed: the call reports
\* success and the placeholder user, the Renter row and the invitation it
\* created are stored.
C18_mail_failure_swallowed ==
    [][(nops' = nops + 1 /\ last'.op = "add_renter")
          => \A c \in {"l1", "admin"}, pk \in 1..Len(tenancies), e \in RenterEmails, b \in BOOLEAN :
               (/\ pk \in get_queryset(c)
                /\ EmailStr(e)
                /\ e \notin DOMAIN users
                /\ Invitation(e, tenancies[pk].household) \notin invitations
                /\ add_renter(c, pk, e, b, FALSE))
                 => /\ last'.outcome = "created"
                    /\ e \in DOMAIN users'
                    /\ \E i \in RentersOf(renters', pk) : renters'[i].user = e
                    /\ Invitation(e, tenancies[pk].household) \in invitations']_vars

\* C19: a user is a Renter of a given tenancy at most once: an add_renter
\* request for an address whose user is already a renter of the tenancy is
\* answered with an error and leaves the renters, the primary one included,
\* the users and the invitations as they were, also when it carries
\* is_primary=true.
C19_renter_attached_once ==
    [][/\ \A i, j \in 1..Len(renters') :
             (/\ ~renters'[i].deleted /\ ~renters'[j].deleted
              /\ renters'[i].tenancy = renters'[j].tenancy
              /\ renters'[i].user = renters'[j].user) => i = j
       /\ (/\ nops' = nops + 1
           /\ last'.op = "add_renter"
           /\ \E i \in 1..Len(renters) :
                 /\ ~renters[i].deleted
                 /\ renters[i].tenancy = last'.tenancy
                 /\ renters[i].user = last'.email)
             => /\ last'.outcome \in ErrorOutcomes
                /\ renters' = renters
                /\ users' = users
                /\ invitations' = invitations]_vars

\* an add_renter with is_primary=true for the address of a renter who is
\* already attached, as non-primary, was refused; the tenancy's primary
\* renter is still another one
C19_witness ==
    /\ last.op = "add_renter"
    /\ last.outcome = "400"
    /\ last.is_primary
    /\ \E i, j \in RentersOf(renters, last.tenancy) :
          /\ renters[i].user = last.email
          /\ ~renters[i].is_primary
          /\ renters[j].is_primary

----------------------------------------------------------------------------
(* Properties of deletion *)

\* C20: a Tenancy row is never physically removed: the tenancy destroy
\* operation only sets the status of its row to 'moved_out', and no
\* operation, the deletion of the owning household included, removes a
\* Tenancy row that exists.
C20_tenancy_never_removed ==
    [][/\ Len(tenancies') >= Len(tenancies)
       /\ \A i \in 1..Len(tenancies) : tenancies[i] # GoneTenancy => tenancies'[i] # GoneTenancy
       /\ (nops' = nops + 1 /\ last'.op = "destroy" /\ last'.outcome = "saved")
             => tenancies' = [tenancies EXCEPT ![last'.tenancy].status = "moved_out"]]_vars

----------------------------------------------------------------------------
(* Properties of the provider *)

\* C21: extract_tenant_data on a file whose extension is not in the
\* whitelist raises the unsupported-type error and has sent no request to
\* the AI service before it.
C21_unsupported_before_network ==
    (last.op = "extract_tenant_data" /\ last.ext \notin SUPPORTED_MIME_TYPES)
        => last.error = "ValueError: unsupported file type" /\ last.calls = <<>>

\* C22: a convert_to_pdf call that fails on a file needing conversion
\* returns no path and leaves the converter's temp_files list and the
\* temporary paths on disk as they were before the call
C22_failure_leaves_no_temp ==
    [][(nops' = nops + 1 /\ last'.op = "convert_to_pdf"
        /\ last'.input_exists /\ last'.ext \in REQUIRES_CONVERSION /\ last'.how # "ok")
           => (last'.outcome = "None" /\ converter' = converter)]_vars

\* C23: upload_tenancy for a household that exists and belongs to another
\* landlord is answered 404, as for an id of no household, and stores no
\* TenancyAgreement
C23_foreign_household_not_found ==
    [][\A c \in Callers, h \in Households, f \in UploadedFiles :
          (h \in households /\ landlord(h) # c /\ upload_tenancy_begin(c, h, f))
              => (last'.outcome = "404" /\ agreements' = agreements)]_vars

----------------------------------------------------------------------------
(* Invitations and household members (users/views/invitations.py,         *)
(* users/views/households.py)                                             *)

Membership(h, e) == [household |-> h, tenant |-> e]

\* the token of an invitation stands for the row it was generated for;
\* BadToken is a token of no row
BadToken == Invitation("", "")

\* an is_valid that forgets accepted_at; C24 must not survive it
is_valid_forgets_accept(fields, k, now) == now < fields[k].expires_at

\* TenantInvitation.is_valid
is_valid(fields, k, now) ==
    fields[k].accepted_at = NoDate /\ now < fields[k].expires_at

\* validated_data.get(key, default) on an optional field
get(opt, default) == IF opt = None THEN default ELSE opt[1]

AcceptPayload(token, password, password_confirm, first_name, last_name, phone_number) ==
    [token |-> token, password |-> password, password_confirm |-> password_confirm,
     first_name |-> first_name, last_name |-> last_name, phone_number |-> phone_number]

\* django's validate_password: "123" stands for a password it refuses
validate_password(pw) == pw # "123"

\* InvitationAcceptSerializer.is_valid
InvitationAcceptSerializer(p) ==
    validate_password(p.password) /\ p.password = p.password_confirm

\* an accept that writes the request's credentials into any account; C30
\* must not survive it
accept_user_overwrites(us, e, p) ==
    [x \in DOMAIN us \cup {e} |->
        IF x # e THEN us[x]
        ELSE create_user(p.password, [first_name |-> get(p.first_name, ""), last_name |-> get(p.last_name, ""),
                                      phone_number |-> get(p.phone_number, "")], TRUE)]

\* lines 96-119 of accept: the account of the invited address afterwards
accept_user(us, e, p) ==
    IF e \in DOMAIN us
    THEN IF ~us[e].is_active
         THEN [us EXCEPT ![e] = [is_active |-> TRUE, password |-> p.password,
                                 first_name |-> get(p.first_name, @.first_name),
                                 last_name |-> get(p.last_name, @.last_name),
                                 phone_number |-> get(p.phone_number, @.phone_number)]]
         ELSE us
    ELSE [x \in DOMAIN us \cup {e} |->
            IF x # e THEN us[x]
            ELSE create_user(p.password, [first_name |-> get(p.first_name, ""), last_name |-> get(p.last_name, ""),
                                          phone_number |-> get(p.phone_number, "")], TRUE)]

InvitationDone(op, outcome, token) == Done(op, outcome, [token |-> token])

\* InvitationViewSet.verify
verify(token) ==
    /\ nops < MaxOps
    /\ nops' = nops + 1
    /\ last' = InvitationDone("verify",
                              IF token \notin invitations THEN "404"
                              ELSE IF ~is_valid(invitation_fields, token, today) THEN "400"
                              ELSE "200", token)
    /\ UNCHANGED <<today, households, agreements, tenancies, users, renters, invitations, invitation_fields,
                   memberships, converter, call, pending>>

\* InvitationViewSet.accept
accept(p) ==
    /\ nops < MaxOps
    /\ nops' = nops + 1
    /\ UNCHANGED <<today, households, agreements, tenancies, renters, invitations, converter, call, pending>>
    /\ IF ~InvitationAcceptSerializer(p)
       THEN /\ last' = InvitationDone("accept", "400", p.token)
            /\ UNCHANGED <<users, memberships, invitation_fields>>
       ELSE IF p.token \notin invitations
       THEN /\ last' = InvitationDone("accept", "404", p.token)
            /\ UNCHANGED <<users, memberships, invitation_fields>>
       ELSE IF ~is_valid(invitation_fields, p.token, today)
       THEN /\ last' = InvitationDone("accept", "400", p.token)
            /\ UNCHANGED <<users, memberships, invitation_fields>>
       ELSE /\ users' = accept_user(users, p.token.email, p)
            /\ memberships' = memberships \cup {Membership(p.token.household, p.token.email)}
            /\ invitation_fields' = [invitation_fields EXCEPT ![p.token].accepted_at = today]
            /\ last' = InvitationDone("accept", "201", p.token)

MemberDone(outcome, h, e, sent) ==
    Done("add_member", outcome, [household |-> h, email |-> e, invitation_sent |-> sent])

\* HouseholdViewSet.add_member; e = "" is a request without email, mailOK
\* tells whether send_invitation_email goes through
add_member(caller, h, e, profile, mailOK) ==
    /\ nops < MaxOps
    /\ nops' = nops + 1
    /\ UNCHANGED <<today, households, agreements, tenancies, renters, converter, call, pending>>
    /\ IF h \notin household_queryset(caller)
       THEN /\ last' = MemberDone("404", h, e, FALSE)
            /\ UNCHANGED <<users, memberships, invitations, invitation_fields>>
       ELSE IF e = ""
       THEN /\ last' = MemberDone("400", h, e, FALSE)
            /\ UNCHANGED <<users, memberships, invitations, invitation_fields>>
       ELSE IF e \in DOMAIN users
       THEN IF Membership(h, e) \in memberships
            THEN /\ last' = MemberDone("400", h, e, FALSE)
                 /\ UNCHANGED <<users, memberships, invitations, invitation_fields>>
            ELSE /\ memberships' = memberships \cup {Membership(h, e)}
                 /\ last' = MemberDone("201", h, e, FALSE)
                 /\ UNCHANGED <<users, invitations, invitation_fields>>
       ELSE IF Invitation(e, h) \in invitations /\ is_valid(invitation_fields, Invitation(e, h), today)
       THEN /\ last' = MemberDone("400", h, e, FALSE)
            /\ UNCHANGED <<users, memberships, invitations, invitation_fields>>
       ELSE IF Invitation(e, h) \in invitations
       THEN /\ last' = MemberDone("500", h, e, FALSE)
            /\ UNCHANGED <<users, memberships, invitations, invitation_fields>>
       ELSE /\ invitations' = invitations \cup {Invitation(e, h)}
            /\ invitation_fields' = TenantInvitation_save(invitation_fields, invitations', today)
            /\ users' = [x \in DOMAIN users \cup {e} |->
                           IF x = e THEN create_user(NoPassword, profile, FALSE) ELSE users[x]]
            /\ last' = MemberDone("201", h, e, TRUE)
            /\ UNCHANGED memberships

\* seven days pass
Week ==
    /\ today <= MaxDay
    /\ today' = today + INVITATION_DAYS
    /\ UNCHANGED <<households, agreements, tenancies, users, renters, invitations, invitation_fields,
                   memberships, converter, call, pending, last, nops>>

InvitedEmails == {"john@example.com", "l2@example.com"}

Tokens == { Invitation(e, h) : e \in InvitedEmails, h \in Households } \cup {BadToken}

Ann == [first_name |-> "Ann", last_name |-> "", phone_number |-> ""]

AcceptPayloads ==
    { AcceptPayload(k, "pw-of-invitee", c, f, None, None) :
        k \in Tokens, c \in {"pw-of-invitee", "typo"}, f \in {None, Some("Bob")} }
    \cup { AcceptPayload(k, "123", "123", None, None, None) : k \in Tokens }

NextInvitations ==
    \/ \E c \in Landlords, h \in Households, e \in InvitedEmails \cup {""}, mailOK \in BOOLEAN :
           add_member(c, h, e, Ann, mailOK)
    \/ \E c \in Landlords, e \in InvitedEmails, h \in Households : invitation_create(c, e, h)
    \/ \E k \in Tokens : verify(k)
    \/ \E p \in AcceptPayloads : accept(p)
    \/ Week

SpecInvitations == Init /\ [][NextInvitations]_vars

----------------------------------------------------------------------------
(* Properties of invitations, under SpecInvitations *)

\* C24: an accept for an invitation that is already accepted or past its
\* expires_at is answered 400 and changes no user, no membership and no
\* accepted_at; an accepted invitation stays accepted, and every verify
\* for its token is answered 400
C24_accept_once_while_valid ==
    [][/\ \A p \in AcceptPayloads :
            (/\ p.token \in invitations
             /\ (invitation_fields[p.token].accepted_at # NoDate \/ today >= invitation_fields[p.token].expires_at)
             /\ accept(p))
                => (/\ last'.outcome = "400"
                    /\ users' = users /\ memberships' = memberships
                    /\ invitation_fields' = invitation_fields)
       /\ \A k \in invitations :
            invitation_fields[k].accepted_at # NoDate
                => (/\ k \in invitations'
                    /\ invitation_fields'[k].accepted_at = invitation_fields[k].accepted_at
                    /\ (verify(k) => last'.outcome = "400"))]_vars

\* an accept was refused for an invitation that had been accepted before
C24_witness ==
    /\ last.op = "accept" /\ last.outcome = "400"
    /\ last.token \in invitations
    /\ invitation_fields[last.token].accepted_at # NoDate
    /\ today < invitation_fields[last.token].expires_at
    /\ Membership(last.token.household, last.token.email) \in memberships

\* C25: after add_member has sent an invitation to an address without
\* account, another add_member for the same address and household creates
\* no HouseholdMembership
C25_no_membership_before_accept ==
    [][(/\ last.op = "add_member" /\ last.outcome = "201" /\ last.invitation_sent
        /\ nops' = nops + 1
        /\ last'.op = "add_member"
        /\ last'.household = last.household /\ last'.email = last.email)
           => memberships' = memberships]_vars

\* C30: accept leaves the row of an account that is already active as it
\* is and, when it succeeds, adds the membership and marks the invitation
\* accepted; an account whose row an accept changes was inactive before
C30_active_account_untouched ==
    [][\A p \in AcceptPayloads :
          /\ (p.token.email \in DOMAIN users /\ users[p.token.email].is_active /\ accept(p))
                => (/\ users' = users
                    /\ last'.outcome = "201"
                          => (/\ memberships' = memberships \cup {Membership(p.token.household, p.token.email)}
                              /\ invitation_fields'[p.token].accepted_at = today))
          /\ (p.token.email \in DOMAIN users /\ ~users[p.token.email].is_active /\ accept(p)
                 /\ last'.outcome = "201")
                => (users'[p.token.email].is_active /\ users'[p.token.email].password = p.password)
          /\ accept(p) => \A e \in DOMAIN users : users'[e] # users[e] => ~users[e].is_active]_vars

\* an invitation of an account that was active from the start was accepted
C30_witness ==
    /\ last.op = "accept" /\ last.outcome = "201"
    /\ last.token.email = "l2@example.com"
    /\ users["l2@example.com"].password = "secret"
    /\ Membership(last.token.household, "l2@example.com") \in memberships

----------------------------------------------------------------------------
(* Extraction runs that overlap.  Each request is a worker of its own; it   *)
(* blocks in provider.extract_tenant_data and afterwards writes the fields  *)
(* named in update_fields to the row, whatever the row holds by then.       *)

Extracting(op, ta) == [pc |-> "extracting", op |-> op, ta |-> ta]

\* upload_tenancy on worker w up to the provider call
upload_tenancy_start(w, caller, hid, file) ==
    /\ pending[w] = Idle
    /\ UNCHANGED <<today, households, tenancies, users, renters, invitations, invitation_fields,
                   memberships, converter, call, nops>>
    /\ IF UploadCheck(caller, hid, file) # "accepted"
       THEN /\ last' = Done("upload_tenancy", UploadCheck(caller, hid, file), [ta |-> 0])
            /\ UNCHANGED <<agreements, pending>>
       ELSE /\ Len(agreements) < MaxAgreements
            /\ agreements' = Append(agreements, NewAgreement(hid, file.ext))
            /\ pending' = [pending EXCEPT ![w] = Extracting("upload_tenancy", Len(agreements) + 1)]
            /\ UNCHANGED last

\* process_tenancy on worker w up to the provider call
process_tenancy_start(w, caller, pk) ==
    /\ pending[w] = Idle
    /\ UNCHANGED <<today, households, tenancies, users, renters, invitations, invitation_fields,
                   memberships, converter, call, nops>>
    /\ IF ProcessCheck(caller, pk) # "accepted"
       THEN /\ last' = Done("process_tenancy", ProcessCheck(caller, pk), [ta |-> pk])
            /\ UNCHANGED <<agreements, pending>>
       ELSE /\ agreements' = [agreements EXCEPT ![pk].status = "processing"]
            /\ pending' = [pending EXCEPT ![w] = Extracting("process_tenancy", pk)]
            /\ UNCHANGED last

\* the provider answers worker w; the request saves and responds
extraction_finish(w, env) ==
    /\ pending[w].pc = "extracting"
    /\ LET ta == pending[w].ta
           row == AfterExtraction(agreements[ta], RunExtraction(agreements[ta].ext, env))
       IN  /\ agreements' = [agreements EXCEPT ![ta] = row]
           /\ last' = IF pending[w].op = "upload_tenancy" THEN UploadDone(ta, row) ELSE ProcessDone(ta, row)
    /\ pending' = [pending EXCEPT ![w] = Idle]
    /\ UNCHANGED <<today, households, tenancies, users, renters, invitations, invitation_fields,
                   memberships, converter, call, nops>>

NextOverlap ==
    \/ \E w \in Workers, c \in Landlords, h \in Households : upload_tenancy_start(w, c, h, Upload(".pdf", TRUE))
    \/ \E w \in Workers, c \in Landlords, pk \in 1..MaxAgreements : process_tenancy_start(w, c, pk)
    \/ \E w \in Workers, e \in FewEnvs : extraction_finish(w, e)

SpecOverlap == Init /\ [][NextOverlap]_vars

\* C26: with extraction runs overlapping, no record is 'failed' with
\* extracted data, and no step takes a record from 'processed' to 'failed'
\* or from 'failed' to 'processed'
C26_overlapping_runs_consistent ==
    [][\A pk \in 1..Len(agreements) :
          /\ ~(agreements'[pk].status = "failed" /\ agreements'[pk].extracted_data # NullData)
          /\ ~(agreements[pk].status = "processed" /\ agreements'[pk].status = "failed")
          /\ ~(agreements[pk].status = "failed" /\ agreements'[pk].status = "processed")]_vars

\* C27: a process_tenancy request for a record that is 'processed' starts
\* no provider call and leaves every record as it was
C27_processed_is_noop ==
    [][\A c \in Callers, pk \in 1..MaxAgreements :
          (/\ pk <= Len(agreements)
           /\ agreements[pk].status = "processed"
           /\ process_tenancy_begin(c, pk))
              => (agreements' = agreements /\ call' = NoCall)]_vars

\* the owner's process_tenancy on a 'processed' record was answered 200
\* with the record's data in place and no provider call running
C27_witness ==
    /\ last.op = "process_tenancy" /\ last.outcome = "200"
    /\ DOMAIN last = {"op", "outcome", "ta"}
    /\ last.ta \in 1..Len(agreements)
    /\ agreements[last.ta].status = "processed"
    /\ agreements[last.ta].extracted_data # NullData
    /\ call = NoCall

----------------------------------------------------------------------------
(* Proof documents *)

\* the stored name of a file uploaded as proof of tenancy pk
ProofFile(pk) == <<"tenancy_proofs", pk>>

ProofDone(outcome, pk, was) == TenancyDone("upload_proof", outcome, pk) @@ [was |-> was]

\* TenancyViewSet.upload_proof
upload_proof(caller, pk, present) ==
    /\ nops < MaxOps
    /\ nops' = nops + 1
    /\ UNCHANGED <<today, households, agreements, users, renters, invitations, invitation_fields,
                   memberships, converter, call, pending>>
    /\ IF pk \notin get_queryset(caller)
       THEN /\ last' = ProofDone("404", pk, NoFile)
            /\ UNCHANGED tenancies
       ELSE IF ~is_admin(caller) /\ landlord(tenancies[pk].household) # caller
       THEN /\ last' = ProofDone("403", pk, NoFile)
            /\ UNCHANGED tenancies
       ELSE IF ~present
       THEN /\ last' = ProofDone("400", pk, NoFile)
            /\ UNCHANGED tenancies
       ELSE /\ tenancies' = [tenancies EXCEPT ![pk].proof_document = ProofFile(pk)]
            /\ last' = ProofDone("200", pk, tenancies[pk].proof_document)

\* the onboarding flow followed by uploads of proof documents
NextProof ==
    \/ \E c \in Landlords, e \in FewEnvs : upload_tenancy(c, "h1", Upload(".pdf", TRUE), e)
    \/ \E c \in Landlords, ta \in AgreementIds, p \in OnboardingConfirmPayloads : confirm_tenancy(c, ta, p)
    \/ \E c \in Callers, pk \in TenancyIds, present \in BOOLEAN : upload_proof(c, pk, present)

SpecProof == Init /\ [][NextProof]_vars

\* C28: after upload_proof has replaced the proof_document of the Tenancy
\* that confirm_tenancy created for an agreement, a further confirm_tenancy
\* on that agreement creates no second Tenancy
C28_one_tenancy_after_upload_proof ==
    [][\A ta \in 1..Len(agreements) :
          (/\ last.op = "upload_proof" /\ last.outcome = "200"
           /\ last.was = AgreementFile(ta)
           /\ nops' = nops + 1
           /\ last'.op = "confirm_tenancy" /\ last'.ta = ta)
              => Len(tenancies') = Len(tenancies)]_vars

\* the place of a status on the line future -> active -> moving_out -> moved_out
Rank(st) ==
    CASE st = "future" -> 1 [] st = "active" -> 2 [] st = "moving_out" -> 3 [] OTHER -> 4

\* C29: the status of a Tenancy never moves back on the line future ->
\* active -> moving_out -> moved_out; a row that is 'moved_out' stays so
C29_status_moves_forward ==
    [][\A pk \in 1..Len(tenancies) :
          Rank(tenancies'[pk].status) >= Rank(tenancies[pk].status)]_vars

====
